---- MODULE Spec2Model ----
(***************************************************************************)
(* Dose-volume histogram (src/src/dvh.rs): the Dvh structure, its append   *)
(* operations add / add_slice, the explicit sort, and the two interpolated *)
(* queries dx and vx.                                                      *)
(*                                                                         *)
(* Numbers.  The program computes on f64.  The model computes on exact     *)
(* rationals <<num, den>> (den > 0, lowest terms) plus the values of f64   *)
(* that are no real numbers: NaN, written <<0, 0>>, and the infinities,    *)
(* written <<1, 0>> and <<-1, 0>>.  Every comparison with NaN is false,    *)
(* every arithmetic operation on NaN is NaN.  Rounding in arithmetic and   *)
(* the sign of zero are not modelled.                                      *)
(*                                                                         *)
(* Reading a number from text may end on a neighbouring f64 of the one     *)
(* written.  The f64 that lies u units in the last place above the         *)
(* rational num/den is written <<num, den, u>> (u # 0).  One unit in the   *)
(* last place is smaller than the difference of any two rationals of the   *)
(* model, so the comparisons decide on the rationals and then on u;        *)
(* arithmetic computes on the rationals.                                   *)
(***************************************************************************)
EXTENDS Integers, Sequences, FiniteSets, Bags, TLC

VARIABLES dvh, call

vars == <<dvh, call>>

----------------------------------------------------------------------------
(* Bounds of the model *)

\* Largest number of points a histogram is grown to.
MaxLen == 3

\* The longest text handed to Name::from_dicom.
MaxNameLen == 6

----------------------------------------------------------------------------
(* f64 values: exact rationals and their neighbours, the infinities and     *)
(* NaN                                                                     *)

Abs(n) == IF n < 0 THEN -n ELSE n

RECURSIVE GCD(_, _)
GCD(a, b) == IF b = 0 THEN a ELSE GCD(b, a % b)

NaN == <<0, 0>>

\* f64::INFINITY and f64::NEG_INFINITY.
Infinity == <<1, 0>>
NegInfinity == <<-1, 0>>

IsNaN(x) == x = NaN

\* f64::is_finite: neither NaN nor an infinity.
IsFinite(x) == x[2] # 0

\* The units in the last place by which x lies above its rational.
Ulps(x) == IF Len(x) = 3 THEN x[3] ELSE 0

\* f64::next_up on a finite value: the next f64 above x.
next_up(x) ==
    IF Ulps(x) = -1 THEN <<x[1], x[2]>> ELSE <<x[1], x[2], Ulps(x) + 1>>

\* The value n/m: in lowest terms with a positive denominator; n/0 is the
\* infinity of the sign of n, and 0/0 is NaN.
Rat(n, m) ==
    IF m = 0
    THEN IF n > 0 THEN Infinity ELSE IF n < 0 THEN NegInfinity ELSE NaN
    ELSE LET g == GCD(Abs(n), Abs(m))
             s == IF m < 0 THEN -1 ELSE 1
         IN  <<(s * n) \div g, (s * m) \div g>>

Num(k) == <<k, 1>>

Zero == Num(0)

\* 1.0, the upper limit of a Percent volume.
One == Num(1)

\* f64 comparisons: false as soon as one side is NaN; an infinity is beyond
\* every rational and equal to itself.
FLt(a, b) ==
    IF a[2] # 0 /\ b[2] # 0
    THEN \/ a[1] * b[2] < b[1] * a[2]
         \/ a[1] * b[2] = b[1] * a[2] /\ Ulps(a) < Ulps(b)
    ELSE /\ ~IsNaN(a) /\ ~IsNaN(b)
         /\ IF a[2] = 0 /\ b[2] = 0 THEN a[1] < b[1]
            ELSE a[1] * b[2] < b[1] * a[2]
FLe(a, b) ==
    IF a[2] # 0 /\ b[2] # 0
    THEN \/ a[1] * b[2] < b[1] * a[2]
         \/ a[1] * b[2] = b[1] * a[2] /\ Ulps(a) <= Ulps(b)
    ELSE /\ ~IsNaN(a) /\ ~IsNaN(b)
         /\ IF a[2] = 0 /\ b[2] = 0 THEN a[1] <= b[1]
            ELSE a[1] * b[2] <= b[1] * a[2]
FGt(a, b) == FLt(b, a)
FGe(a, b) == FLe(b, a)
FEq(a, b) ==
    IF a[2] # 0 /\ b[2] # 0
    THEN a[1] * b[2] = b[1] * a[2] /\ Ulps(a) = Ulps(b)
    ELSE /\ ~IsNaN(a) /\ ~IsNaN(b)
         /\ IF a[2] = 0 /\ b[2] = 0 THEN a[1] = b[1]
            ELSE a[1] * b[2] = b[1] * a[2]

\* f64 arithmetic, exact on the rationals of its operands, NaN-propagating.
\* The sum of the two infinities is NaN.
FAdd(a, b) == IF a[2] # 0 /\ b[2] # 0
              THEN Rat(a[1] * b[2] + b[1] * a[2], a[2] * b[2])
              ELSE IF IsNaN(a) \/ IsNaN(b) THEN NaN
              ELSE IF a[2] # 0 THEN b
              ELSE IF b[2] = 0 /\ b # a THEN NaN
              ELSE a
FSub(a, b) == FAdd(a, <<-b[1], b[2]>>)
\* An infinity times zero is NaN.
FMul(a, b) == IF IsNaN(a) \/ IsNaN(b) THEN NaN
              ELSE Rat(a[1] * b[1], a[2] * b[2])
\* x / 0.0 is the infinity of the sign of x, and NaN for x = 0.0; an
\* infinity over an infinity is NaN, a rational over an infinity 0.0.
FDiv(a, b) == IF a[2] # 0 /\ b[2] # 0 /\ b[1] # 0
              THEN Rat(a[1] * b[2], a[2] * b[1])
              ELSE IF IsNaN(a) \/ IsNaN(b) THEN NaN
              ELSE IF a[2] = 0
              THEN IF b[2] = 0 THEN NaN
                   ELSE IF b[1] < 0 THEN <<-a[1], 0>> ELSE a
              ELSE IF b[2] = 0 THEN Zero
              ELSE Rat(a[1], 0)

----------------------------------------------------------------------------
(* Inputs the operations are driven with *)

DoseType == {"Gy", "CGy"}
VolumeType == {"Percent", "Cc"}

\* The two configurations the repository's tests construct.
Configs == {<<"Gy", "Percent">>, <<"CGy", "Cc">>}

\* Doses the append validation is examined on: a negative one, valid ones,
\* NaN.
DoseVals == {Num(-1), Num(0), Num(1), Num(2), NaN}

\* Volumes the append validation is examined on: a negative one, valid ones,
\* one above 1.0, NaN.
VolVals == {Num(-1), Num(0), Rat(1, 4), Num(1), Num(2), NaN}

\* The (dose, volume) points the histograms are built from: a strictly
\* decreasing curve (0,1) (1,1/4) (2,0), points that repeat a dose or a
\* volume of it (plateaus, duplicate doses, non-monotone volumes), a volume
\* above 1.0, a NaN dose, a NaN volume, a negative dose, a negative volume.
Points ==
    {<<Num(0), Num(1)>>, <<Num(1), Rat(1, 4)>>, <<Num(2), Num(0)>>,
     <<Num(1), Num(1)>>, <<Num(2), Num(1)>>,
     <<Num(0), Num(2)>>,
     <<NaN, Num(0)>>, <<Num(1), NaN>>,
     <<Num(-1), Num(1)>>, <<Num(1), Num(-1)>>}

\* The batches handed to add_slice, as <<doses, volumes>>: valid ones (empty,
\* one point, two points out of dose order), slices of different lengths,
\* and two-point batches with one offending element (negative dose,
\* negative volume, volume above 1.0) in first and in last position.
Batches ==
    {<< <<>>, <<>> >>,
     << <<Num(1)>>, <<Rat(1, 4)>> >>,
     << <<Num(2), Num(0)>>, <<Num(0), Num(1)>> >>,
     << <<Num(1)>>, <<>> >>,
     << <<Num(1)>>, <<Num(1), Num(0)>> >>,
     << <<Num(-1), Num(1)>>, <<Num(1), Num(1)>> >>,
     << <<Num(1), Num(-1)>>, <<Num(1), Num(1)>> >>,
     << <<Num(1), Num(2)>>, <<Num(-1), Num(1)>> >>,
     << <<Num(1), Num(2)>>, <<Num(1), Num(-1)>> >>,
     << <<Num(0), Num(1)>>, <<Num(2), Num(1)>> >>,
     << <<Num(0), Num(1)>>, <<Num(1), Num(2)>> >>}

\* 0.009014129638671875 = 2363 / 2^18: an f64 whose shortest decimal text
\* has the 16 significant digits 9014129638671875, a number above 2^53.
SixteenDigits == <<2363, 262144>>

\* Slices of 21 points, more than sort_unstable_by sorts by insertion; the
\* volumes fall from 21/32 to 1/32, so that every point of a slice is told
\* from the others.  The doses: eight points of dose 1 followed by a point of
\* dose 0; a point of dose 12 before two points of dose 10; no two equal.
LongDoses ==
    {<<1, 1, 1, 1, 1, 1, 1, 1, 0, 2, 4, 3, 5, 6, 7, 8, 9, 10, 11, 12, 13>>,
     <<0, 1, 2, 3, 4, 5, 6, 7, 8, 9, 12, 10, 10, 13, 14, 15, 16, 17, 18, 19, 20>>,
     <<20, 1, 2, 3, 4, 5, 6, 7, 8, 9, 10, 11, 12, 13, 14, 15, 16, 17, 18, 19, 0>>}

LongBatches ==
    {<<[k \in 1..Len(d) |-> Num(d[k])], [k \in 1..Len(d) |-> Rat(22 - k, 32)]>>
        : d \in LongDoses}

\* The points the round trips through JSON are examined on: points of the
\* decreasing curve, a dose and a volume that serde_json does not read back
\* as written, a NaN dose.
SerdePoints ==
    {<<Num(0), Num(1)>>, <<Num(1), Rat(1, 4)>>, <<Num(2), Num(0)>>,
     <<SixteenDigits, Rat(1, 2)>>, <<Rat(1, 2), SixteenDigits>>,
     <<NaN, Num(0)>>}

\* Query values for dx and vx: negative, on the grid of the stored values,
\* strictly between stored values, above every stored value, NaN.
QueryVals ==
    {Num(-1), Num(0), Rat(1, 8), Rat(1, 4), Rat(1, 2), Num(1), Rat(3, 2),
     Num(2), Num(3), NaN}

----------------------------------------------------------------------------
(* The program *)

\* linear_interpolation as it would be if the offset added were y1.
linear_interpolation_from_y1(x, x0, x1, y0, y1) ==
    IF FEq(x1, x0) THEN y0
    ELSE FAdd(FDiv(FMul(FSub(x, x0), FSub(y1, y0)), FSub(x1, x0)), y1)

linear_interpolation(x, x0, x1, y0, y1) ==
    IF FEq(x1, x0) THEN y0
    ELSE FAdd(FDiv(FMul(FSub(x, x0), FSub(y1, y0)), FSub(x1, x0)), y0)

new(dose_type, volume_type) ==
    [dose_type |-> dose_type, volume_type |-> volume_type,
     d |-> <<>>, v |-> <<>>, is_sorted |-> TRUE]

len(self) == Len(self.d)

is_empty(self) == Len(self.d) = 0

\* Result of a call on a histogram: the histogram afterwards and the value
\* returned.
Outcome(self, ret) == [self |-> self, ret |-> ret]

\* add as it would be without its check of a negative volume.
add_without_negative_volume_check(self, d, v) ==
    IF FLt(d, Zero) THEN Outcome(self, FALSE)
    ELSE IF self.volume_type = "Percent" /\ FGt(v, One) THEN Outcome(self, FALSE)
    ELSE Outcome([self EXCEPT !.is_sorted = FALSE,
                              !.d = Append(@, d),
                              !.v = Append(@, v)], TRUE)

\* add as it would be if it left the sorted flag alone.
add_without_invalidation(self, d, v) ==
    IF FLt(d, Zero) THEN Outcome(self, FALSE)
    ELSE IF FLt(v, Zero) THEN Outcome(self, FALSE)
    ELSE IF self.volume_type = "Percent" /\ FGt(v, One) THEN Outcome(self, FALSE)
    ELSE Outcome([self EXCEPT !.d = Append(@, d),
                              !.v = Append(@, v)], TRUE)

\* add as it would be if it cleared the sorted flag only when the new dose
\* is below the last stored one.
add_keeping_flag_when_in_order(self, d, v) ==
    IF FLt(d, Zero) THEN Outcome(self, FALSE)
    ELSE IF FLt(v, Zero) THEN Outcome(self, FALSE)
    ELSE IF self.volume_type = "Percent" /\ FGt(v, One) THEN Outcome(self, FALSE)
    ELSE Outcome([self EXCEPT !.is_sorted =
                                  /\ @
                                  /\ \/ Len(self.d) = 0
                                     \/ FGe(d, self.d[Len(self.d)]),
                              !.d = Append(@, d),
                              !.v = Append(@, v)], TRUE)

add(self, d, v) ==
    IF FLt(d, Zero) THEN Outcome(self, FALSE)
    ELSE IF FLt(v, Zero) THEN Outcome(self, FALSE)
    ELSE IF self.volume_type = "Percent" /\ FGt(v, One) THEN Outcome(self, FALSE)
    ELSE Outcome([self EXCEPT !.is_sorted = FALSE,
                              !.d = Append(@, d),
                              !.v = Append(@, v)], TRUE)

\* add_slice as it would be if it validated each pair while appending: the
\* pairs before the first offending one are appended, then it returns false.
add_slice_checking_while_appending(self, d, v) ==
    IF Len(d) # Len(v) THEN Outcome(self, FALSE)
    ELSE LET bad == {i \in 1..Len(d) :
                        \/ FLt(d[i], Zero)
                        \/ FLt(v[i], Zero)
                        \/ self.volume_type = "Percent" /\ FGt(v[i], One)}
             k == IF bad = {} THEN Len(d) + 1
                  ELSE CHOOSE i \in bad : \A j \in bad : i <= j
         IN  IF k = 1 THEN Outcome(self, FALSE)
             ELSE Outcome([self EXCEPT !.is_sorted = FALSE,
                                       !.d = @ \o SubSeq(d, 1, k - 1),
                                       !.v = @ \o SubSeq(v, 1, k - 1)], bad = {})

\* add_slice as it would be if it returned before touching the histogram
\* when the slices are empty.
add_slice_returning_early_on_empty(self, d, v) ==
    IF Len(d) # Len(v) THEN Outcome(self, FALSE)
    ELSE IF Len(d) = 0 THEN Outcome(self, TRUE)
    ELSE IF \E i \in 1..Len(d) : FLt(d[i], Zero) THEN Outcome(self, FALSE)
    ELSE IF \E i \in 1..Len(v) :
                \/ FLt(v[i], Zero)
                \/ self.volume_type = "Percent" /\ FGt(v[i], One)
         THEN Outcome(self, FALSE)
    ELSE Outcome([self EXCEPT !.is_sorted = FALSE,
                              !.d = @ \o d,
                              !.v = @ \o v], TRUE)

\* add_slice as it would be without the Percent limit on the volumes.
add_slice_without_percent_limit(self, d, v) ==
    IF Len(d) # Len(v) THEN Outcome(self, FALSE)
    ELSE IF \E i \in 1..Len(d) : FLt(d[i], Zero) THEN Outcome(self, FALSE)
    ELSE IF \E i \in 1..Len(v) : FLt(v[i], Zero) THEN Outcome(self, FALSE)
    ELSE Outcome([self EXCEPT !.is_sorted = FALSE,
                              !.d = @ \o d,
                              !.v = @ \o v], TRUE)

add_slice(self, d, v) ==
    IF Len(d) # Len(v) THEN Outcome(self, FALSE)
    ELSE IF \E i \in 1..Len(d) : FLt(d[i], Zero) THEN Outcome(self, FALSE)
    ELSE IF \E i \in 1..Len(v) :
                \/ FLt(v[i], Zero)
                \/ self.volume_type = "Percent" /\ FGt(v[i], One)
         THEN Outcome(self, FALSE)
    ELSE Outcome([self EXCEPT !.is_sorted = FALSE,
                              !.d = @ \o d,
                              !.v = @ \o v], TRUE)

\* slice::sort_unstable_by sorts a slice of at most this many elements by
\* insertion (MAX_INSERTION of the pattern-defeating quicksort,
\* MAX_LEN_ALWAYS_INSERTION_SORT of the sort that replaced it).
MAX_LEN_ALWAYS_INSERTION_SORT == 20

\* insert_tail: the index i is moved to the left past every index of a
\* greater dose, and no further.
RECURSIVE insert_tail(_, _, _)
insert_tail(d, sorted, i) ==
    IF sorted = <<>> \/ ~FLt(d[i], d[sorted[Len(sorted)]])
    THEN Append(sorted, i)
    ELSE Append(insert_tail(d, SubSeq(sorted, 1, Len(sorted) - 1), i),
                sorted[Len(sorted)])

\* insertion_sort_shift_left on the indices 1..n: each index in turn is
\* inserted into the sorted indices before it.
RECURSIVE insertion_sort_shift_left(_, _)
insertion_sort_shift_left(d, n) ==
    IF n = 0 THEN <<>>
    ELSE insert_tail(d, insertion_sort_shift_left(d, n - 1), n)

\* Every order of the indices in rest that puts their doses in non-decreasing
\* order: an index of the least dose, then such an order of the others.
RECURSIVE NonDecreasingOrders(_, _)
NonDecreasingOrders(d, rest) ==
    IF rest = {} THEN {<<>>}
    ELSE UNION {{<<i>> \o p : p \in NonDecreasingOrders(d, rest \ {i})}
                : i \in {i \in rest : \A j \in rest : FLe(d[i], d[j])}}

\* The orders of the indices 1..Len(d) that sort_unstable_by may produce for
\* the comparator d[i].partial_cmp(d[j]).  Up to 20 indices are sorted by
\* insertion, which leaves indices of equal dose in their order.  A longer
\* slice is sorted by a quicksort that exchanges elements far apart; the order
\* it leaves elements of equal dose in is not specified and differs between
\* versions of the library: every order that puts the doses in non-decreasing
\* order.
SortedIndices(d) ==
    IF Len(d) <= MAX_LEN_ALWAYS_INSERTION_SORT
    THEN {insertion_sort_shift_left(d, Len(d))}
    ELSE NonDecreasingOrders(d, 1..Len(d))

\* partial_cmp(..).unwrap() panics when a compared dose is NaN; with two or
\* more elements every element is compared at least once.
SortPanics(d) == Len(d) >= 2 /\ \E i \in 1..Len(d) : IsNaN(d[i])

\* sort as it would be if only the doses were reordered.
sort_doses_only(self) ==
    IF self.is_sorted THEN {Outcome(self, "returned")}
    ELSE IF SortPanics(self.d) THEN {Outcome(self, "panic")}
    ELSE {Outcome([self EXCEPT !.d = [k \in 1..Len(self.d) |-> self.d[indices[k]]],
                               !.is_sorted = TRUE], "returned")
            : indices \in SortedIndices(self.d)}

\* sort as it would be if its early return on a set sorted flag cleared the
\* flag.
sort_clearing_flag_on_early_return(self) ==
    IF self.is_sorted
    THEN {Outcome([self EXCEPT !.is_sorted = FALSE], "returned")}
    ELSE IF SortPanics(self.d) THEN {Outcome(self, "panic")}
    ELSE {Outcome([self EXCEPT !.d = [k \in 1..Len(self.d) |-> self.d[indices[k]]],
                               !.v = [k \in 1..Len(self.d) |-> self.v[indices[k]]],
                               !.is_sorted = TRUE], "returned")
            : indices \in SortedIndices(self.d)}

\* sort as it would be if it set the flag and left the points where they
\* are.
sort_setting_flag_only(self) ==
    IF self.is_sorted THEN {Outcome(self, "returned")}
    ELSE IF SortPanics(self.d) THEN {Outcome(self, "panic")}
    ELSE {Outcome([self EXCEPT !.is_sorted = TRUE], "returned")}

\* The set of outcomes of sort().
sort(self) ==
    IF self.is_sorted THEN {Outcome(self, "returned")}
    ELSE IF SortPanics(self.d) THEN {Outcome(self, "panic")}
    ELSE {Outcome([self EXCEPT !.d = [k \in 1..Len(self.d) |-> self.d[indices[k]]],
                               !.v = [k \in 1..Len(self.d) |-> self.v[indices[k]]],
                               !.is_sorted = TRUE], "returned")
            : indices \in SortedIndices(self.d)}

Ok(y) == [ok |-> TRUE, val |-> y]
Err(e) == [ok |-> FALSE, err |-> e]

\* DxScan as it would be if the loop did not carry the dose along (y0 = *y1
\* left out).
RECURSIVE DxScan_without_dose_update(_, _, _, _, _)
DxScan_without_dose_update(self, volume, i, x0, y0) ==
    IF i = 0
    THEN IF FGt(volume, x0) THEN Ok(y0) ELSE Err("DvhDxLogic")
    ELSE LET x1 == self.v[i]
             y1 == self.d[i]
         IN  IF FGe(volume, x0) /\ FLe(volume, x1)
             THEN Ok(linear_interpolation(volume, x0, x1, y0, y1))
             ELSE DxScan_without_dose_update(self, volume, i - 1, x1, y0)

\* DxScan as it would be if the bracket were open at its upper end
\* (volume < *x1).
RECURSIVE DxScan_with_open_bracket(_, _, _, _, _)
DxScan_with_open_bracket(self, volume, i, x0, y0) ==
    IF i = 0
    THEN IF FGt(volume, x0) THEN Ok(y0) ELSE Err("DvhDxLogic")
    ELSE LET x1 == self.v[i]
             y1 == self.d[i]
         IN  IF FGe(volume, x0) /\ FLt(volume, x1)
             THEN Ok(linear_interpolation(volume, x0, x1, y0, y1))
             ELSE DxScan_with_open_bracket(self, volume, i - 1, x1, y1)

\* The loop of dx: the pairs (v[i], d[i]) from the last index down to the
\* first, x0/y0 carrying the previous pair; i = 0 is the code after the loop.
RECURSIVE DxScan(_, _, _, _, _)
DxScan(self, volume, i, x0, y0) ==
    IF i = 0
    THEN IF FGt(volume, x0) THEN Ok(y0) ELSE Err("DvhDxLogic")
    ELSE LET x1 == self.v[i]
             y1 == self.d[i]
         IN  IF FGe(volume, x0) /\ FLe(volume, x1)
             THEN Ok(linear_interpolation(volume, x0, x1, y0, y1))
             ELSE DxScan(self, volume, i - 1, x1, y1)

\* dx as it would be if it tested the sorted flag before the number of
\* points.
dx_checking_sorted_first(self, volume) ==
    IF FLt(volume, Zero) THEN Err("NegativeVolume")
    ELSE IF ~self.is_sorted THEN Err("DvhUnsorted")
    ELSE IF is_empty(self) THEN Err("DvhNoData")
    ELSE IF len(self) < 2 THEN Err("DvhInsufficientData")
    ELSE LET n == Len(self.v)
             x0 == self.v[n]
             y0 == self.d[n]
         IN  IF FLe(volume, x0) THEN Ok(y0)
             ELSE DxScan(self, volume, n, x0, y0)

\* dx as it would be if it applied the Percent limit of add to its query.
dx_rejecting_percent_above_one(self, volume) ==
    IF FLt(volume, Zero) THEN Err("NegativeVolume")
    ELSE IF self.volume_type = "Percent" /\ FGt(volume, One)
         THEN Err("PercentVolumeOutOfRange")
    ELSE IF is_empty(self) THEN Err("DvhNoData")
    ELSE IF len(self) < 2 THEN Err("DvhInsufficientData")
    ELSE IF ~self.is_sorted THEN Err("DvhUnsorted")
    ELSE LET n == Len(self.v)
             x0 == self.v[n]
             y0 == self.d[n]
         IN  IF FLe(volume, x0) THEN Ok(y0)
             ELSE DxScan(self, volume, n, x0, y0)

\* dx as it would be without its check of the sorted flag.
dx_without_sorted_check(self, volume) ==
    IF FLt(volume, Zero) THEN Err("NegativeVolume")
    ELSE IF is_empty(self) THEN Err("DvhNoData")
    ELSE IF len(self) < 2 THEN Err("DvhInsufficientData")
    ELSE LET n == Len(self.v)
             x0 == self.v[n]
             y0 == self.d[n]
         IN  IF FLe(volume, x0) THEN Ok(y0)
             ELSE DxScan(self, volume, n, x0, y0)

dx(self, volume) ==
    IF FLt(volume, Zero) THEN Err("NegativeVolume")
    ELSE IF is_empty(self) THEN Err("DvhNoData")
    ELSE IF len(self) < 2 THEN Err("DvhInsufficientData")
    ELSE IF ~self.is_sorted THEN Err("DvhUnsorted")
    ELSE LET n == Len(self.v)
             x0 == self.v[n]
             y0 == self.d[n]
         IN  IF FLe(volume, x0) THEN Ok(y0)
             ELSE DxScan(self, volume, n, x0, y0)

\* VxScan as it would be if the loop did not move the lower end of the
\* bracket along (x0 = *x1 and y0 = *y1 left out).
RECURSIVE VxScan_without_update(_, _, _, _, _)
VxScan_without_update(self, dose, i, x0, y0) ==
    LET n == Len(self.d) IN
    IF i = n + 1
    THEN IF FGt(dose, self.d[n]) THEN Ok(self.v[n]) ELSE Err("DvhVxLogic")
    ELSE LET x1 == self.d[i]
             y1 == self.v[i]
         IN  IF FGe(dose, x0) /\ FLe(dose, x1)
             THEN Ok(linear_interpolation(dose, x0, x1, y0, y1))
             ELSE VxScan_without_update(self, dose, i + 1, x0, y0)

\* VxScan as it would be if the code after the loop clamped to the first
\* sample.
RECURSIVE VxScan_clamping_to_first(_, _, _, _, _)
VxScan_clamping_to_first(self, dose, i, x0, y0) ==
    LET n == Len(self.d) IN
    IF i = n + 1
    THEN IF FGt(dose, self.d[n]) THEN Ok(self.v[1]) ELSE Err("DvhVxLogic")
    ELSE LET x1 == self.d[i]
             y1 == self.v[i]
         IN  IF FGe(dose, x0) /\ FLe(dose, x1)
             THEN Ok(linear_interpolation(dose, x0, x1, y0, y1))
             ELSE VxScan_clamping_to_first(self, dose, i + 1, x1, y1)

\* The loop of vx: the pairs (d[i], v[i]) from the first index up to the
\* last; i = n + 1 is the code after the loop.
RECURSIVE VxScan(_, _, _, _, _)
VxScan(self, dose, i, x0, y0) ==
    LET n == Len(self.d) IN
    IF i = n + 1
    THEN IF FGt(dose, self.d[n]) THEN Ok(self.v[n]) ELSE Err("DvhVxLogic")
    ELSE LET x1 == self.d[i]
             y1 == self.v[i]
         IN  IF FGe(dose, x0) /\ FLe(dose, x1)
             THEN Ok(linear_interpolation(dose, x0, x1, y0, y1))
             ELSE VxScan(self, dose, i + 1, x1, y1)

\* vx as it would be if it looked at the number of points before the sign
\* of the query.
vx_counting_points_first(self, dose) ==
    IF is_empty(self) THEN Err("DvhNoData")
    ELSE IF len(self) < 2 THEN Err("DvhInsufficientData")
    ELSE IF FLt(dose, Zero) THEN Err("NegativeDose")
    ELSE IF ~self.is_sorted THEN Err("DvhUnsorted")
    ELSE LET x0 == self.d[1]
             y0 == self.v[1]
         IN  IF FLe(dose, x0) THEN Ok(y0)
             ELSE VxScan(self, dose, 1, x0, y0)

vx(self, dose) ==
    IF FLt(dose, Zero) THEN Err("NegativeDose")
    ELSE IF is_empty(self) THEN Err("DvhNoData")
    ELSE IF len(self) < 2 THEN Err("DvhInsufficientData")
    ELSE IF ~self.is_sorted THEN Err("DvhUnsorted")
    ELSE LET x0 == self.d[1]
             y0 == self.v[1]
         IN  IF FLe(dose, x0) THEN Ok(y0)
             ELSE VxScan(self, dose, 1, x0, y0)

----------------------------------------------------------------------------
(* The records around the histogram, equality and persistence.  The        *)
(* serialized form is the JSON value serde_json writes for what serde's    *)
(* derive hands to it: the fields that are not skipped, an f64 as a number *)
(* when it is finite and as null when it is not.  Reading the text back    *)
(* gives a Result: a null where an f64 is expected is an error.            *)

\* Option<T>.
None == <<>>
Some(x) == <<x>>

\* Vec<f64> == Vec<f64>: element-wise f64 equality, so a NaN element is
\* equal to nothing.
vec_eq(a, b) ==
    /\ Len(a) = Len(b)
    /\ \A i \in 1..Len(a) : FEq(a[i], b[i])

\* derive(PartialEq) on Dvh: every field, the sorted flag included.
Dvh_eq(a, b) ==
    /\ a.dose_type = b.dose_type
    /\ a.volume_type = b.volume_type
    /\ vec_eq(a.d, b.d)
    /\ vec_eq(a.v, b.v)
    /\ a.is_sorted = b.is_sorted

\* JSON values an f64 is written as.
JsonNumber(x) == [json |-> "number", number |-> x]
JsonNull == [json |-> "null", number |-> Zero]

\* serde_json on an f64: a number, or null for NaN and the infinities.
f64_serialize(x) == IF IsFinite(x) THEN JsonNumber(x) ELSE JsonNull

\* Vec<f64> as a JSON array.
vec_serialize(a) == [i \in 1..Len(a) |-> f64_serialize(a[i])]

\* The error of serde_json on a null where an f64 is expected.
NullForF64 == Err("invalid type: null, expected f64")

\* Non-negative integers of any size, for the digits of a decimal text and
\* for mantissas: the sequence of the digits to the base Limb = 2^15, lowest
\* first, without leading zeros.
LimbBits == 15

Limb == 2^LimbBits

Digit(a, i) == IF i <= Len(a) THEN a[i] ELSE 0

\* a without its leading zeros: the digits up to the highest that is not 0.
BigNorm(a) ==
    SubSeq(a, 1, Cardinality({i \in 1..Len(a) : \E j \in i..Len(a) : a[j] # 0}))

Big(n) == BigNorm(<<n % Limb, (n \div Limb) % Limb, n \div (Limb * Limb)>>)

\* a + b, digit by digit.  A carry comes out of place i when the sum of some
\* place up to i overflows and the sums of the places from there to i are
\* all Limb - 1.  The sum with 0 is the other number.
BigAdd(a, b) ==
    LET n == (IF Len(a) > Len(b) THEN Len(a) ELSE Len(b)) + 1
        Sum(i) == Digit(a, i) + Digit(b, i)
        Carry(i) == \E j \in 1..i : /\ Sum(j) >= Limb
                                    /\ \A t \in (j + 1)..i : Sum(t) = Limb - 1
    IN  IF a = <<>> \/ b = <<>> THEN BigNorm(a \o b)
        ELSE BigNorm(SubSeq([i \in 1..n |->
                                (Sum(i) + IF Carry(i - 1) THEN 1 ELSE 0) % Limb],
                            1, n))

\* a - b, for a >= b.
BigSub(a, b) ==
    LET Borrow(i) ==
            \E j \in 1..i : /\ Digit(a, j) < Digit(b, j)
                            /\ \A t \in (j + 1)..i : Digit(a, t) = Digit(b, t)
    IN  BigNorm(SubSeq([i \in 1..Len(a) |->
                           (a[i] - Digit(b, i) + Limb
                            - IF Borrow(i - 1) THEN 1 ELSE 0) % Limb],
                       1, Len(a)))

\* a * m, for an m of at most Limb.
BigTimesDigit(a, m) ==
    IF a = <<>> THEN <<>> ELSE
    BigAdd([i \in 1..Len(a) |-> (a[i] * m) % Limb],
           <<0>> \o [i \in 1..Len(a) |-> (a[i] * m) \div Limb])

\* a * b: a times the lower half of the digits of b, and a times the upper
\* half moved up by as many places.
RECURSIVE BigMul(_, _)
BigMul(a, b) ==
    LET h == Len(b) \div 2 IN
    IF a = <<>> \/ b = <<>> THEN <<>>
    ELSE IF Len(b) = 1 THEN BigTimesDigit(a, b[1])
    ELSE BigAdd(BigMul(a, SubSeq(b, 1, h)),
                [i \in 1..h |-> 0] \o BigMul(a, SubSeq(b, h + 1, Len(b))))

\* a * 5^e, by a factor of at most 5^13 at a time.
RECURSIVE BigTimes5(_, _)
BigTimes5(a, e) ==
    LET h == IF e < 13 THEN e ELSE 13 IN
    IF a = <<>> \/ e = 0 THEN a ELSE BigTimes5(BigMul(a, Big(5^h)), e - h)

\* a * 2^g.
BigShl(a, g) ==
    BigNorm([i \in 1..(g \div LimbBits) |-> 0]
            \o BigTimesDigit(a, 2^(g % LimbBits)))

\* floor(a / 2^g), and whether a is a multiple of 2^g.
BigShr(a, g) ==
    LET whole == g \div LimbBits
        p == 2^(g % LimbBits)
        top == SubSeq(a, whole + 1, Len(a))
    IN  IF a = <<>> THEN [q |-> <<>>, exact |-> TRUE]
        ELSE [q |-> BigNorm(SubSeq([i \in 1..Len(top) |->
                                       top[i] \div p
                                       + (Digit(top, i + 1) % p) * (Limb \div p)],
                                   1, Len(top))),
              exact |-> /\ \A i \in 1..Len(a) : i <= whole => a[i] = 0
                        /\ Digit(top, 1) % p = 0]

BigOdd(a) == Digit(a, 1) % 2 = 1

\* a < b: a is shorter, or as long and smaller in the highest digit the two
\* differ in.
BigLt(a, b) ==
    \/ Len(a) < Len(b)
    \/ /\ Len(a) = Len(b)
       /\ \E i \in 1..Len(a) : /\ a[i] < b[i]
                               /\ \A j \in (i + 1)..Len(a) : a[j] = b[j]

BigLe(a, b) == a = b \/ BigLt(a, b)

\* The number of binary digits of an n below 2^31: as many as there are
\* powers of two up to n.
BitLen(n) == Cardinality({b \in 0..30 : 2^b <= n})

IsPowerOfTwo(n) == \E b \in 0..30 : n = 2^b

\* The binary digits an integer a has beyond the 53 of an f64 mantissa.
ExcessBits(a) ==
    LET bits == IF a = <<>> THEN 0
                ELSE LimbBits * (Len(a) - 1) + BitLen(a[Len(a)])
    IN  IF bits > 53 THEN bits - 53 ELSE 0

\* The multiple of 2^(g + 1) nearest to an integer a, the even multiple when
\* a is halfway between two, from half = floor(a / 2^g): when that is even
\* a is rounded down, to half * 2^g; when it is odd a is rounded up, to
\* (half + 1) * 2^g, unless a is halfway and half - 1 an even multiple of 2.
HalfEven(half, g) ==
    BigShl(IF ~BigOdd(half.q) THEN half.q
           ELSE IF ~half.exact \/ half.q[1] % 4 = 3 THEN BigAdd(half.q, <<1>>)
           ELSE [half.q EXCEPT ![1] = @ - 1],
           g)

\* `a as f64` for a u64 a, and the f64 of a decimal literal 1e<n>: the f64
\* nearest to the integer a, the one of even mantissa when a is halfway
\* between two; a itself when it has no more than 53 binary digits.
nearest_f64(a) ==
    IF ExcessBits(a) = 0 THEN a
    ELSE HalfEven(BigShr(a, ExcessBits(a) - 1), ExcessBits(a) - 1)

\* The f64s next to a positive rational n / 2^k.  With 2^52 <= m < 2^53 the
\* mantissa of n / 2^k, n / 2^k = m / 2^b for b = k + 53 - BitLen(n); its
\* neighbours are one unit of 2^-b apart, and half a unit below a power of
\* two.  In quarters of a unit, multiples of 2^-(b + 2), n / 2^k is
\* n * 2^(55 - BitLen(n)): four digits, the lowest of them 0, digit i made of
\* the binary digits of n from 15 * i - 70 + BitLen(n) on.
Quarters(n, c) ==
    LET Part(from) ==
            IF from >= 0 THEN (n \div 2^from) % Limb
            ELSE IF from <= -LimbBits THEN 0
            ELSE (n % 2^(LimbBits + from)) * 2^(-from)
        exact == [i \in 1..4 |->
                     IF i = 1 THEN 0 ELSE Part(LimbBits * i - 70 + BitLen(n))]
    IN  IF c >= 0 THEN [exact EXCEPT ![1] = c] ELSE BigSub(exact, <<-c>>)

\* The f64 j steps above n / 2^k, in quarters of a unit.
Stepped(n, j) ==
    Quarters(n, IF IsPowerOfTwo(n) /\ j < 0 THEN 2 * j ELSE 4 * j)

\* The reals that round to that f64 lie between RoundsFrom and RoundsTo:
\* halfway to the neighbour on either side, the ends included when the
\* mantissa is even.
RoundsFrom(n, j) ==
    Quarters(n, IF IsPowerOfTwo(n) /\ j <= 0 THEN 2 * j - 1 ELSE 4 * j - 2)

RoundsTo(n, j) ==
    Quarters(n, IF IsPowerOfTwo(n) /\ j < 0 THEN 2 * j + 1 ELSE 4 * j + 2)

\* floor(r * 10^e / 2^q) = floor(r * 5^e / 2^(q - e)), and whether the
\* quotient is an integer.
Scaled(r, e, q) == BigShr(BigTimes5(r, e), q - e)

\* The least integer in a range that begins at the real that from is the
\* floor of; the range holds its ends when it is closed.
Least(from, closed) ==
    BigAdd(from.q, <<IF from.exact /\ closed THEN 0 ELSE 1>>)

\* The integer s is in a range that ends at the real that to is the floor of.
AtMost(s, to, closed) ==
    IF to.exact /\ ~closed THEN BigLt(s, to.q) ELSE BigLe(s, to.q)

\* Of the integers below and above the real that half is the floor of the
\* double of, the one in the range from least to to: the only one in it, or
\* of two the nearer one, the even one when the real is halfway.
NearestIn(below, above, half, least, to, closed) ==
    IF ~AtMost(above, to, closed) THEN below
    ELSE IF BigLt(below, least) THEN above
    ELSE IF ~BigOdd(half.q) THEN below
    ELSE IF ~half.exact THEN above
    ELSE IF BigOdd(below) THEN above ELSE below

\* The digits of the decimal of e decimals that is nearest to the f64 u
\* steps above n / 2^k, among those that round to it.
Digits(half, from, to, closed) ==
    NearestIn(BigShr(half.q, 1).q, BigAdd(BigShr(half.q, 1).q, <<1>>), half,
              Least(from, closed), to, closed)

\* Whether a decimal of e decimals rounds to the f64: s / 10^e does when
\* s * 2^q lies between RoundsFrom * 10^e and RoundsTo * 10^e.
Fits(from, to, closed) == AtMost(Least(from, closed), to, closed)

LeastOf(S) == CHOOSE e \in S : \A j \in S : e <= j

\* serde_json::to_string on a finite f64 (ryu): the decimal of the fewest
\* digits that rounds to the f64, and of those the one nearest to it.  For
\* the f64 u steps above n / 2^k, with q = b + 2: the digits, and how many
\* of them follow the decimal point.  With 10^e >= 2^q some decimal of e
\* decimals rounds to the f64, the two ends of the range being more than
\* 2^54 and at least 3 apart (q is 24 or more, and such an e no more than
\* q / 3 + 1).
Shortest(n, u, q, e) ==
    [decimals |-> e,
     significand |->
        Digits(Scaled(Stepped(n, u), e, q - 1), Scaled(RoundsFrom(n, u), e, q),
               Scaled(RoundsTo(n, u), e, q), u % 2 = 0)]

FewestDecimals(n, u, q) ==
    LeastOf({e \in 0..((q * 30103) \div 100000 + 1) :
                Fits(Scaled(RoundsFrom(n, u), e, q),
                     Scaled(RoundsTo(n, u), e, q), u % 2 = 0)})

format_finite(n, k, u) ==
    Shortest(n, u, k + 55 - BitLen(n),
             FewestDecimals(n, u, k + 55 - BitLen(n)))

\* The f64 that the quotient x / pow rounds to, as its steps from n / 2^k:
\* x / pow lies between RoundsFrom and RoundsTo (x has been multiplied by the
\* 2^q that the two are multiples of), or is one of them and the mantissa
\* even.
RoundsHere(x, from, to, closed) ==
    \/ BigLt(from, x) /\ BigLt(x, to)
    \/ closed /\ (x = from \/ x = to)

Quotient(x, pow, n, near) ==
    near[CHOOSE i \in 1..Len(near) :
            RoundsHere(x, BigMul(pow, RoundsFrom(n, near[i])),
                       BigMul(pow, RoundsTo(n, near[i])), near[i] % 2 = 0)]

\* serde_json::from_str on a JSON number, as built without the feature
\* float_roundtrip (f64_from_parts): the digits are read as a u64, the u64
\* is converted to f64 and divided by the f64 of the power of ten.  The
\* result is the f64 that the quotient of the two rounds to; it is looked
\* for from u outwards.  The f64 of 10^e is 2^e times the f64 of 5^e; the
\* quotient is formed without the factor 2^e.
f64_from_parts(text, n, k, u) ==
    Quotient(BigShl(nearest_f64(text.significand),
                    k + 55 - BitLen(n) - text.decimals),
             nearest_f64(BigTimes5(<<1>>, text.decimals)), n,
             <<u, u + 1, u - 1, u + 2, u - 2, u + 3, u - 3>>)

\* n * 5^k when that is a number below 2^31, else -1.
RECURSIVE DecimalDigits(_, _)
DecimalDigits(n, k) ==
    IF k = 0 THEN n
    ELSE IF n > 400000000 THEN -1
    ELSE DecimalDigits(5 * n, k - 1)

\* A text of no decimals is an integer below 2^53 and is read as written.
Read(text, n, k, u) ==
    IF text.decimals = 0 THEN u ELSE f64_from_parts(text, n, k, u)

\* The f64 j steps from x, away from 0 for a positive j.
Neighbour(x, j) ==
    IF j = 0 THEN <<x[1], x[2]>>
    ELSE <<x[1], x[2], IF x[1] < 0 THEN -j ELSE j>>

\* The f64 read from the text written for the f64 x.  The text of
\* n / 2^k is n * 5^k with k digits after the point when that has at most 15
\* digits; the integer read is then below 2^53, the power of ten is an f64,
\* and the one division gives back x.  Otherwise the text is that of
\* format_finite and the result that of f64_from_parts.  A rational that
\* is no f64 (a denominator that is no power of two) is left as it is.
parse_number(x) ==
    LET n == Abs(x[1])
        k == BitLen(x[2]) - 1
        u == IF x[1] < 0 THEN -Ulps(x) ELSE Ulps(x)
    IN  IF x[1] = 0 \/ ~IsPowerOfTwo(x[2]) THEN x
        ELSE IF u = 0 /\ DecimalDigits(n, k) >= 0 THEN x
        ELSE Neighbour(x, Read(format_finite(n, k, u), n, k, u))

\* What a table of parsed numbers holds, and what its values are read as.
Closed(parsed) ==
    [x \in DOMAIN parsed \cup {parsed[y] : y \in DOMAIN parsed} |->
        IF x \in DOMAIN parsed THEN parsed[x] ELSE parse_number(x)]

\* What the finite values of the points that the histograms are built from
\* are read as, and what these in turn are read as; computed once.
ParsedNumbers ==
    Closed([x \in {p[i] : p \in Points \cup SerdePoints, i \in 1..2}
                  \ {NaN, Infinity, NegInfinity} |-> parse_number(x)])

Parsed(parsed, x) ==
    IF x \in DOMAIN parsed THEN parsed[x] ELSE parse_number(x)

\* f64::deserialize on a JSON number.
f64_deserialize(value) == Parsed(ParsedNumbers, value.number)

\* A JSON array of numbers read as Vec<f64>; defined when no element is
\* null.
vec_deserialize(value) == [i \in 1..Len(value) |-> f64_deserialize(value[i])]

\* The JSON array holds a null.
HoldsNull(value) == \E i \in 1..Len(value) : value[i].json = "null"

\* derive(Serialize) on Dvh: is_sorted is skipped.
Dvh_serialize(self) ==
    [dose_type |-> self.dose_type, volume_type |-> self.volume_type,
     d |-> vec_serialize(self.d), v |-> vec_serialize(self.v)]

\* derive(Deserialize) on Dvh: is_sorted is skipped and takes bool's
\* default; the result is an error when a dose or a volume is null.
Dvh_deserialize(value) ==
    IF HoldsNull(value.d) \/ HoldsNull(value.v) THEN NullForF64
    ELSE Ok([dose_type |-> value.dose_type, volume_type |-> value.volume_type,
             d |-> vec_deserialize(value.d), v |-> vec_deserialize(value.v),
             is_sorted |-> FALSE])

\* derive(PartialEq), derive(Serialize), derive(Deserialize) on Plan; dvhs
\* is a map from structure name to histogram.
Plan_eq(a, b) ==
    /\ a.id = b.id
    /\ a.name = b.name
    /\ DOMAIN a.dvhs = DOMAIN b.dvhs
    /\ \A k \in DOMAIN a.dvhs : Dvh_eq(a.dvhs[k], b.dvhs[k])

Plan_serialize(self) ==
    [id |-> self.id, name |-> self.name,
     dvhs |-> [k \in DOMAIN self.dvhs |-> Dvh_serialize(self.dvhs[k])]]

\* An error when one of the histograms does not deserialize.
Plan_deserialize(value) ==
    IF \E k \in DOMAIN value.dvhs : ~Dvh_deserialize(value.dvhs[k]).ok
    THEN NullForF64
    ELSE Ok([id |-> value.id, name |-> value.name,
             dvhs |-> [k \in DOMAIN value.dvhs |->
                          Dvh_deserialize(value.dvhs[k]).val]])

\* derive(PartialEq), derive(Serialize), derive(Deserialize) on Patient.
Patient_eq(a, b) ==
    /\ a.patient_id = b.patient_id
    /\ a.name = b.name
    /\ Len(a.plans) = Len(b.plans)
    /\ \A i \in 1..Len(a.plans) : Plan_eq(a.plans[i], b.plans[i])

Patient_serialize(self) ==
    [patient_id |-> self.patient_id, name |-> self.name,
     plans |-> [i \in 1..Len(self.plans) |-> Plan_serialize(self.plans[i])]]

\* An error when one of the plans does not deserialize.
Patient_deserialize(value) ==
    IF \E i \in 1..Len(value.plans) : ~Plan_deserialize(value.plans[i]).ok
    THEN NullForF64
    ELSE Ok([patient_id |-> value.patient_id, name |-> value.name,
             plans |-> [i \in 1..Len(value.plans) |->
                           Plan_deserialize(value.plans[i]).val]])

\* The patient of test_patient_serialize_minimal: no name, no plan.
MinimalPatient ==
    [patient_id |-> "P00001", name |-> None, plans |-> <<>>]

\* The patient of test_patient_round_trip: a name and two plans, the plans
\* holding the histograms given (maps from structure name to histogram).
RoundTripPatient(dvhs3, dvhs4) ==
    [patient_id |-> "P99999",
     name |-> Some([last |-> "Brown", first |-> "Alice", middle |-> "",
                    prefix |-> "", suffix |-> ""]),
     plans |-> <<[id |-> "PLAN003", name |-> None, dvhs |-> dvhs3],
                 [id |-> "PLAN004", name |-> Some("Secondary Plan"),
                  dvhs |-> dvhs4]>>]

\* HashMap::new().
NoDvhs == <<>>

\* The patient records a round trip is made of, for a histogram self: the
\* two records of the tests, and the second with self under "PTV" in its
\* first plan.
Patients(self) ==
    {MinimalPatient,
     RoundTripPatient(NoDvhs, NoDvhs),
     RoundTripPatient([k \in {"PTV"} |-> self], NoDvhs)}

----------------------------------------------------------------------------
(* The histogram without a volume unit (src/src/model.rs): the fields      *)
(* dose_type, d, v, is_sorted and its own linear_interpolation, new, len,  *)
(* is_empty, add, add_slice, sort, dx and vx.                              *)

model_linear_interpolation(x, x0, x1, y0, y1) ==
    IF FEq(x1, x0) THEN y0
    ELSE FAdd(FDiv(FMul(FSub(x, x0), FSub(y1, y0)), FSub(x1, x0)), y0)

model_new(dose_type) ==
    [dose_type |-> dose_type, d |-> <<>>, v |-> <<>>, is_sorted |-> TRUE]

model_len(self) == Len(self.d)

model_is_empty(self) == Len(self.d) = 0

\* add of model.rs as it would be with the limit of 1.0 on the volume.
model_add_limiting_volume(self, d, v) ==
    IF FLt(d, Zero) THEN Outcome(self, FALSE)
    ELSE IF FLt(v, Zero) THEN Outcome(self, FALSE)
    ELSE IF FGt(v, One) THEN Outcome(self, FALSE)
    ELSE Outcome([self EXCEPT !.is_sorted = FALSE,
                              !.d = Append(@, d),
                              !.v = Append(@, v)], TRUE)

model_add(self, d, v) ==
    IF FLt(d, Zero) THEN Outcome(self, FALSE)
    ELSE IF FLt(v, Zero) THEN Outcome(self, FALSE)
    ELSE Outcome([self EXCEPT !.is_sorted = FALSE,
                              !.d = Append(@, d),
                              !.v = Append(@, v)], TRUE)

model_add_slice(self, d, v) ==
    IF Len(d) # Len(v) THEN Outcome(self, FALSE)
    ELSE IF \E i \in 1..Len(d) : FLt(d[i], Zero) THEN Outcome(self, FALSE)
    ELSE IF \E i \in 1..Len(v) : FLt(v[i], Zero) THEN Outcome(self, FALSE)
    ELSE Outcome([self EXCEPT !.is_sorted = FALSE,
                              !.d = @ \o d,
                              !.v = @ \o v], TRUE)

\* The set of outcomes of sort() of model.rs.
model_sort(self) ==
    IF self.is_sorted THEN {Outcome(self, "returned")}
    ELSE IF SortPanics(self.d) THEN {Outcome(self, "panic")}
    ELSE {Outcome([self EXCEPT !.d = [k \in 1..Len(self.d) |-> self.d[indices[k]]],
                               !.v = [k \in 1..Len(self.d) |-> self.v[indices[k]]],
                               !.is_sorted = TRUE], "returned")
            : indices \in SortedIndices(self.d)}

\* The loop of dx of model.rs, from the last index down; i = 0 is the code
\* after the loop.
RECURSIVE model_DxScan(_, _, _, _, _)
model_DxScan(self, volume, i, x0, y0) ==
    IF i = 0
    THEN IF FGt(volume, x0) THEN Ok(y0) ELSE Err("DvhDxLogic")
    ELSE LET x1 == self.v[i]
             y1 == self.d[i]
         IN  IF FGe(volume, x0) /\ FLe(volume, x1)
             THEN Ok(model_linear_interpolation(volume, x0, x1, y0, y1))
             ELSE model_DxScan(self, volume, i - 1, x1, y1)

model_dx(self, volume) ==
    IF FLt(volume, Zero) THEN Err("NegativeVolume")
    ELSE IF model_is_empty(self) THEN Err("DvhNoData")
    ELSE IF model_len(self) < 2 THEN Err("DvhInsufficientData")
    ELSE IF ~self.is_sorted THEN Err("DvhUnsorted")
    ELSE LET n == Len(self.v)
             x0 == self.v[n]
             y0 == self.d[n]
         IN  IF FLe(volume, x0) THEN Ok(y0)
             ELSE model_DxScan(self, volume, n, x0, y0)

\* The loop of vx of model.rs, from the first index up; i = n + 1 is the
\* code after the loop.
RECURSIVE model_VxScan(_, _, _, _, _)
model_VxScan(self, dose, i, x0, y0) ==
    LET n == Len(self.d) IN
    IF i = n + 1
    THEN IF FGt(dose, self.d[n]) THEN Ok(self.v[n]) ELSE Err("DvhVxLogic")
    ELSE LET x1 == self.d[i]
             y1 == self.v[i]
         IN  IF FGe(dose, x0) /\ FLe(dose, x1)
             THEN Ok(model_linear_interpolation(dose, x0, x1, y0, y1))
             ELSE model_VxScan(self, dose, i + 1, x1, y1)

model_vx(self, dose) ==
    IF FLt(dose, Zero) THEN Err("NegativeDose")
    ELSE IF model_is_empty(self) THEN Err("DvhNoData")
    ELSE IF model_len(self) < 2 THEN Err("DvhInsufficientData")
    ELSE IF ~self.is_sorted THEN Err("DvhUnsorted")
    ELSE LET x0 == self.d[1]
             y0 == self.v[1]
         IN  IF FLe(dose, x0) THEN Ok(y0)
             ELSE model_VxScan(self, dose, 1, x0, y0)

----------------------------------------------------------------------------
(* Plan::dvh_check (src/src/plan.rs).  The check of one histogram, the     *)
(* implementation of DvhCheck for Dvh, is not among the sources; it is     *)
(* written here from the documentation of the trait and from the errors    *)
(* error.rs declares for it.                                               *)

\* Ok(()).
Unit == "()"

\* What a panic that unwinds through a call leaves as its result.
Panicked == [ok |-> FALSE, err |-> "panic"]

\* Dvh::dvh_check: fails on sequences of different length, on a negative
\* dose, on a negative volume, on a Percent volume above 1.0; otherwise
\* sorts the histogram and succeeds.
Dvh_dvh_check(self) ==
    IF Len(self.d) # Len(self.v)
    THEN {Outcome(self, Err("MismatchedLengthDoseVolumeData"))}
    ELSE IF \E i \in 1..Len(self.d) : FLt(self.d[i], Zero)
    THEN {Outcome(self, Err("NegativeDose"))}
    ELSE IF \E i \in 1..Len(self.v) : FLt(self.v[i], Zero)
    THEN {Outcome(self, Err("NegativeVolume"))}
    ELSE IF self.volume_type = "Percent" /\ \E i \in 1..Len(self.v) : FGt(self.v[i], One)
    THEN {Outcome(self, Err("PercentVolumeOutOfRange"))}
    ELSE {Outcome(r.self, IF r.ret = "panic" THEN Panicked ELSE Ok(Unit)) : r \in sort(self)}

\* The loop of Plan::dvh_check as it would be if it went on after a failed
\* check and reported the first failure at the end.
RECURSIVE PlanCheckFrom_visiting_all(_, _, _, _)
PlanCheckFrom_visiting_all(self, order, i, failure) ==
    IF i > Len(order)
    THEN {[self |-> self, ret |-> failure, visited |-> order]}
    ELSE UNION {
           PlanCheckFrom_visiting_all(
               [self EXCEPT !.dvhs[order[i]] = o.self], order, i + 1,
               IF failure.ok THEN o.ret ELSE failure)
           : o \in Dvh_dvh_check(self.dvhs[order[i]])}

\* The loop of Plan::dvh_check from the i-th histogram of the iteration
\* order on: `dvh.dvh_check()?` on each, the histogram checked in place;
\* failure is the result so far (Ok(()) while the loop runs).  The result
\* carries the plan afterwards and the histograms visited.
RECURSIVE PlanCheckFrom(_, _, _, _)
PlanCheckFrom(self, order, i, failure) ==
    IF i > Len(order)
    THEN {[self |-> self, ret |-> failure, visited |-> order]}
    ELSE UNION {
           IF o.ret.ok
           THEN PlanCheckFrom([self EXCEPT !.dvhs[order[i]] = o.self],
                              order, i + 1, failure)
           ELSE {[self |-> [self EXCEPT !.dvhs[order[i]] = o.self],
                  ret |-> o.ret,
                  visited |-> SubSeq(order, 1, i)]}
           : o \in Dvh_dvh_check(self.dvhs[order[i]])}

\* Plan::dvh_check, order being the order in which values_mut() yields the
\* histograms.
Plan_dvh_check(self, order) == PlanCheckFrom(self, order, 1, Ok(Unit))

\* The orders in which a HashMap with the keys of dvhs may be iterated:
\* every arrangement of the keys.
Orders(dvhs) ==
    LET n == Cardinality(DOMAIN dvhs) IN
    {o \in [1..n -> DOMAIN dvhs] : \A i, j \in 1..n : i # j => o[i] # o[j]}

\* Histograms as a file may hold them (deserialized, so not sorted): a valid
\* one out of dose order, one with a negative dose, a Percent one with a
\* volume above 1.0.
RectumDvh ==
    Dvh_deserialize([dose_type |-> "Gy", volume_type |-> "Percent",
                     d |-> vec_serialize(<<Num(1), Num(0)>>),
                     v |-> vec_serialize(<<Rat(1, 2), Num(1)>>)]).val

NegativeDoseDvh ==
    Dvh_deserialize([dose_type |-> "Gy", volume_type |-> "Percent",
                     d |-> vec_serialize(<<Num(0), Num(-1)>>),
                     v |-> vec_serialize(<<Num(1), Num(1)>>)]).val

PercentOutOfRangeDvh ==
    Dvh_deserialize([dose_type |-> "Gy", volume_type |-> "Percent",
                     d |-> vec_serialize(<<Num(0)>>),
                     v |-> vec_serialize(<<Num(2)>>)]).val

\* A plan holding the histograms dvhs.
PlanHolding(dvhs) == [id |-> "Plan-1", name |-> Some("Initial Treatment"), dvhs |-> dvhs]

\* The plans dvh_check is called on, for a histogram self: without
\* histograms, with self alone, with self and valid or failing others.
Plans(self) ==
    {PlanHolding(NoDvhs),
     PlanHolding([k \in {"PTV"} |-> self]),
     PlanHolding([k \in {"PTV", "Rectum"} |->
                     IF k = "PTV" THEN self ELSE RectumDvh]),
     PlanHolding([k \in {"PTV", "Rectum", "Bladder"} |->
                     IF k = "PTV" THEN self
                     ELSE IF k = "Rectum" THEN RectumDvh ELSE NegativeDoseDvh]),
     PlanHolding([k \in {"PTV", "Rectum", "Bladder"} |->
                     IF k = "PTV" THEN self
                     ELSE IF k = "Rectum" THEN PercentOutOfRangeDvh
                     ELSE NegativeDoseDvh])}

----------------------------------------------------------------------------
(* Name::from_dicom (src/src/name.rs).  A string is the sequence of its     *)
(* characters.                                                              *)

\* The characters of the texts: a letter, a space, the two separators.
Chars == {"D", " ", "^", "\\"}

\* The texts of n characters from_dicom is called on.
Texts(n) == [1..n -> Chars]

\* char::is_whitespace, on the characters above.
is_whitespace(c) == c = " "

\* str::trim_start.
RECURSIVE trim_start(_)
trim_start(s) ==
    IF Len(s) > 0 /\ is_whitespace(s[1])
    THEN trim_start(SubSeq(s, 2, Len(s)))
    ELSE s

\* str::trim_end.
RECURSIVE trim_end(_)
trim_end(s) ==
    IF Len(s) > 0 /\ is_whitespace(s[Len(s)])
    THEN trim_end(SubSeq(s, 1, Len(s) - 1))
    ELSE s

\* A trim that leaves the whitespace at the end of the text.
trim_leaving_the_end(s) == trim_start(s)

\* str::trim.
trim(s) == trim_end(trim_start(s))

\* A separator test that knows the caret only.
is_separator_caret_only(c) == c = "^"

\* The closure handed to split: |c| c == '^' || c == '\\'.
is_separator(c) == c = "^" \/ c = "\\"

\* str::split(pattern).collect::<Vec<_>>(): the substrings between the
\* separators, one more than there are separators.
RECURSIVE split(_)
split(s) ==
    IF \A i \in 1..Len(s) : ~is_separator(s[i])
    THEN <<s>>
    ELSE LET k == CHOOSE i \in 1..Len(s) :
                      /\ is_separator(s[i])
                      /\ \A j \in 1..(i - 1) : ~is_separator(s[j])
         IN <<SubSeq(s, 1, k - 1)>> \o split(SubSeq(s, k + 1, Len(s)))

\* String::default().
EmptyString == <<>>

\* Name::from_dicom.
from_dicom(s) ==
    LET parts == split(trim(s))
        n == Len(parts)
    IN [last   |-> IF n > 0 THEN parts[1] ELSE EmptyString,
        first  |-> IF n > 1 THEN parts[2] ELSE EmptyString,
        middle |-> IF n > 2 THEN parts[3] ELSE EmptyString,
        prefix |-> IF n > 3 THEN parts[4] ELSE EmptyString,
        suffix |-> IF n > 4 THEN parts[5] ELSE EmptyString]

----------------------------------------------------------------------------
(* The state machine: one histogram and the calls made on it.  dvh is the  *)
(* histogram; call records the most recent call: the operation, the        *)
(* histogram it was made on (pre) and what it returned (ret: a boolean for *)
(* add and add_slice, "returned" or "panic" for new and sort, an Ok or Err *)
(* record for dx and vx, "returned" for a round trip of the histogram, the *)
(* outcome of the comparison for a round trip of a patient record).        *)

Init ==
    \E c \in Configs :
        /\ dvh = new(c[1], c[2])
        /\ call = [op |-> "new", pre |-> new(c[1], c[2]), ret |-> "returned"]

Add(d, v) ==
    LET r == add(dvh, d, v) IN
    /\ Len(r.self.d) <= MaxLen
    /\ dvh' = r.self
    /\ call' = [op |-> "add", pre |-> dvh, ret |-> r.ret]

AddSlice(d, v) ==
    LET r == add_slice(dvh, d, v) IN
    /\ Len(r.self.d) <= MaxLen
    /\ dvh' = r.self
    /\ call' = [op |-> "add_slice", pre |-> dvh, ret |-> r.ret]

Sort ==
    \E r \in sort(dvh) :
        /\ dvh' = r.self
        /\ call' = [op |-> "sort", pre |-> dvh, ret |-> r.ret]

Dx(volume) ==
    /\ call' = [op |-> "dx", pre |-> dvh, ret |-> dx(dvh, volume)]
    /\ UNCHANGED dvh

Vx(dose) ==
    /\ call' = [op |-> "vx", pre |-> dvh, ret |-> vx(dvh, dose)]
    /\ UNCHANGED dvh

\* The histogram is serialized and the result deserialized
\* (test_dvh_serde): the program goes on with the histogram read back, or,
\* when from_str fails, with the one it has.
DvhRoundTrip ==
    LET r == Dvh_deserialize(Dvh_serialize(dvh)) IN
    /\ dvh' = IF r.ok THEN r.val ELSE dvh
    /\ call' = [op |-> "dvh_round_trip", pre |-> dvh,
                ret |-> IF r.ok THEN "returned" ELSE "from_str_err"]

\* A patient record p is serialized, deserialized and compared with the
\* original (test_patient_round_trip); ret is the outcome of the
\* comparison, or the error of from_str, and the program goes on with the
\* histogram of the deserialized record when there is one for p's.
PatientRoundTrip(p) ==
    LET r == Patient_deserialize(Patient_serialize(p))
        held == Len(p.plans) > 0 /\ "PTV" \in DOMAIN p.plans[1].dvhs
    IN  /\ dvh' = IF r.ok /\ held THEN r.val.plans[1].dvhs["PTV"] ELSE dvh
        /\ call' = [op |-> "patient_round_trip", pre |-> dvh,
                    ret |-> IF r.ok THEN Ok(Patient_eq(p, r.val)) ELSE r]

Next ==
    \/ \E p \in Points : Add(p[1], p[2])
    \/ \E b \in Batches : AddSlice(b[1], b[2])
    \/ Sort
    \/ \E volume \in QueryVals : Dx(volume)
    \/ \E dose \in QueryVals : Vx(dose)
    \/ DvhRoundTrip
    \/ \E p \in Patients(dvh) : PatientRoundTrip(p)

Spec == Init /\ [][Next]_vars

\* dose_type and volume_type are pub fields: code that holds the histogram
\* mutably can assign them.
SetDoseType(t) ==
    /\ dvh' = [dvh EXCEPT !.dose_type = t]
    /\ call' = [op |-> "set_dose_type", pre |-> dvh, ret |-> "returned"]

SetVolumeType(t) ==
    /\ dvh' = [dvh EXCEPT !.volume_type = t]
    /\ call' = [op |-> "set_volume_type", pre |-> dvh, ret |-> "returned"]

\* The method calls and the assignments to the pub fields.
NextPub ==
    \/ Next
    \/ \E t \in DoseType : SetDoseType(t)
    \/ \E t \in VolumeType : SetVolumeType(t)

SpecPub == Init /\ [][NextPub]_vars

\* Histograms built by add and sort, and their round trips through JSON.
NextSerde ==
    \/ \E p \in SerdePoints : Add(p[1], p[2])
    \/ Sort
    \/ DvhRoundTrip
    \/ \E p \in Patients(dvh) : PatientRoundTrip(p)

SpecSerde == Init /\ [][NextSerde]_vars

\* add_slice on an empty histogram.
AddSliceToEmpty(d, v) ==
    LET r == add_slice(dvh, d, v) IN
    /\ dvh.d = <<>>
    /\ dvh' = r.self
    /\ call' = [op |-> "add_slice", pre |-> dvh, ret |-> r.ret]

\* Histograms of more than 20 points: one add_slice of 21 points, then sort.
NextLong ==
    \/ \E b \in LongBatches : AddSliceToEmpty(b[1], b[2])
    \/ Sort

SpecLong == Init /\ [][NextLong]_vars

\* The calls on the histogram alone.
NextCalls ==
    \/ \E p \in Points : Add(p[1], p[2])
    \/ \E b \in Batches : AddSlice(b[1], b[2])
    \/ Sort
    \/ \E volume \in QueryVals : Dx(volume)
    \/ \E dose \in QueryVals : Vx(dose)

SpecCalls == Init /\ [][NextCalls]_vars

(* add and sort as the sequences of their field writes.  call.pc is the     *)
(* position of the one writer: "idle" between two calls, else the write    *)
(* that comes next; call.pre is the histogram when the call was entered.   *)

InitWrites ==
    \E c \in Configs :
        /\ dvh = new(c[1], c[2])
        /\ call = [op |-> "new", pc |-> "idle", pre |-> new(c[1], c[2])]

\* add is entered: it returns false on a pair it rejects, and otherwise
\* makes its first write, self.is_sorted = false.
AddClearFlag(d, v) ==
    /\ call.pc = "idle"
    /\ Len(dvh.d) < MaxLen
    /\ IF \/ FLt(d, Zero)
          \/ FLt(v, Zero)
          \/ dvh.volume_type = "Percent" /\ FGt(v, One)
       THEN /\ call' = [op |-> "add", pc |-> "idle", pre |-> dvh]
            /\ UNCHANGED dvh
       ELSE /\ dvh' = [dvh EXCEPT !.is_sorted = FALSE]
            /\ call' = [op |-> "add", pc |-> "push_d", pre |-> dvh,
                        d |-> d, v |-> v]

\* self.d.push(d).
AddPushDose ==
    /\ call.pc = "push_d"
    /\ dvh' = [dvh EXCEPT !.d = Append(@, call.d)]
    /\ call' = [call EXCEPT !.pc = "push_v"]

\* self.v.push(v); add returns true.
AddPushVolume ==
    /\ call.pc = "push_v"
    /\ dvh' = [dvh EXCEPT !.v = Append(@, call.v)]
    /\ call' = [op |-> "add", pc |-> "idle", pre |-> call.pre]

\* sort is entered: it returns at once on a set flag, panics in the
\* comparator on a NaN dose, and otherwise builds d_sorted and v_sorted
\* from the sorted indices; no field is written yet.
SortCollect ==
    /\ call.pc = "idle"
    /\ UNCHANGED dvh
    /\ IF dvh.is_sorted \/ SortPanics(dvh.d)
       THEN call' = [op |-> "sort", pc |-> "idle", pre |-> dvh]
       ELSE \E indices \in SortedIndices(dvh.d) :
                call' = [op |-> "sort", pc |-> "write_d", pre |-> dvh,
                         d_sorted |-> [k \in 1..Len(dvh.d) |-> dvh.d[indices[k]]],
                         v_sorted |-> [k \in 1..Len(dvh.d) |-> dvh.v[indices[k]]]]

\* The first write of sort as it would be if the flag were set with it.
SortWriteDoses_setting_flag ==
    /\ call.pc = "write_d"
    /\ dvh' = [dvh EXCEPT !.d = call.d_sorted, !.is_sorted = TRUE]
    /\ call' = [call EXCEPT !.pc = "write_v"]

\* self.d = d_sorted.
SortWriteDoses ==
    /\ call.pc = "write_d"
    /\ dvh' = [dvh EXCEPT !.d = call.d_sorted]
    /\ call' = [call EXCEPT !.pc = "write_v"]

\* self.v = v_sorted.
SortWriteVolumes ==
    /\ call.pc = "write_v"
    /\ dvh' = [dvh EXCEPT !.v = call.v_sorted]
    /\ call' = [call EXCEPT !.pc = "set_flag"]

\* self.is_sorted = true; sort returns.
SortSetFlag ==
    /\ call.pc = "set_flag"
    /\ dvh' = [dvh EXCEPT !.is_sorted = TRUE]
    /\ call' = [op |-> "sort", pc |-> "idle", pre |-> call.pre]

NextWrites ==
    \/ \E p \in Points : AddClearFlag(p[1], p[2])
    \/ AddPushDose
    \/ AddPushVolume
    \/ SortCollect
    \/ SortWriteDoses
    \/ SortWriteVolumes
    \/ SortSetFlag

SpecWrites == InitWrites /\ [][NextWrites]_vars

\* dvh_check is called on a plan p whose map is iterated in the order given;
\* the program goes on with the histogram the plan holds under "PTV".
PlanDvhCheck(p, order) ==
    \E r \in Plan_dvh_check(p, order) :
        /\ dvh' = IF "PTV" \in DOMAIN p.dvhs THEN r.self.dvhs["PTV"] ELSE dvh
        /\ call' = [op |-> "plan_dvh_check", pre |-> dvh, plan |-> p,
                    order |-> order, ret |-> r.ret, post |-> r.self,
                    visited |-> r.visited]

\* Histograms grown by add_slice, their volume unit assigned, and plans
\* around them checked.
NextPlan ==
    \/ \E b \in Batches : AddSlice(b[1], b[2])
    \/ \E t \in VolumeType : SetVolumeType(t)
    \/ \E p \in Plans(dvh) : \E order \in Orders(p.dvhs) : PlanDvhCheck(p, order)

SpecPlan == Init /\ [][NextPlan]_vars

\* from_dicom is called on the text s; it touches no histogram.
FromDicom(s) ==
    /\ call' = [op |-> "from_dicom", pre |-> dvh, arg |-> s, ret |-> from_dicom(s)]
    /\ UNCHANGED dvh

\* A name is parsed once, after the construction.
NextName ==
    /\ call.op = "new"
    /\ \E n \in 0..MaxNameLen : \E s \in Texts(n) : FromDicom(s)

SpecName == Init /\ [][NextName]_vars

----------------------------------------------------------------------------
(* Vocabulary of the properties *)

\* The doses are in non-decreasing order (f64 comparison).
NonDecreasing(d) == \A i \in 1..(Len(d) - 1) : FLe(d[i], d[i + 1])

\* The volumes are in non-increasing order (f64 comparison).
NonIncreasing(v) == \A i \in 1..(Len(v) - 1) : FGe(v[i], v[i + 1])

\* The multiset of the (dose, volume) pairs a histogram holds.
PairBag(self) ==
    LET n == Len(self.d)
        pair(i) == <<self.d[i], self.v[i]>>
    IN  [p \in {pair(i) : i \in 1..n} |->
            Cardinality({i \in 1..n : pair(i) = p})]

\* The condition under which add is to reject (dose, volume).
AddRejects(self, d, v) ==
    \/ FLt(d, Zero)
    \/ FLt(v, Zero)
    \/ self.volume_type = "Percent" /\ FGt(v, One)

\* A histogram dx and vx can answer on: sorted, two points or more.
Queryable(self) == self.is_sorted /\ Len(self.d) >= 2

----------------------------------------------------------------------------
(* C1 *)

\* C1: for every histogram and every pair (dose, volume) with dose < 0, or
\* volume < 0, or (Percent and volume > 1.0), add returns false and leaves
\* doses, volumes and the sorted flag as they were; and whenever add has
\* returned false the histogram is the one the call was made on.
C1_AddRejectsWithoutMutation ==
    /\ \A d \in DoseVals, v \in VolVals :
          AddRejects(dvh, d, v) => add(dvh, d, v) = Outcome(dvh, FALSE)
    /\ (call.op = "add" /\ call.ret = FALSE) => dvh = call.pre

\* A rejected add on a sorted three-point histogram, which dx still answers.
C1_Witness ==
    /\ call.op = "add"
    /\ call.ret = FALSE
    /\ dvh.is_sorted
    /\ Len(dvh.d) = 3
    /\ dx(dvh, Rat(1, 2)).ok

----------------------------------------------------------------------------
(* C2 *)

\* The condition under which add_slice is to reject the batch (d, v).
BatchRejects(self, d, v) ==
    \/ Len(d) # Len(v)
    \/ \E i \in 1..Len(d) : FLt(d[i], Zero)
    \/ \E i \in 1..Len(v) : FLt(v[i], Zero)
    \/ self.volume_type = "Percent" /\ \E i \in 1..Len(v) : FGt(v[i], One)

\* C2: add_slice is all-or-nothing: when the slices differ in length, or a
\* dose is negative, or a volume is negative, or (Percent) a volume is above
\* 1.0, it returns false and doses, volumes and the sorted flag are
\* unchanged, wherever the offending element sits; and whenever add_slice
\* has returned false the histogram is the one the call was made on.
C2_AddSliceAllOrNothing ==
    /\ \A b \in Batches :
          BatchRejects(dvh, b[1], b[2])
              => add_slice(dvh, b[1], b[2]) = Outcome(dvh, FALSE)
    /\ (call.op = "add_slice" /\ call.ret = FALSE) => dvh = call.pre

\* A rejected add_slice on a sorted two-point histogram, on which a batch
\* whose last element offends is rejected whole.
C2_Witness ==
    /\ call.op = "add_slice"
    /\ call.ret = FALSE
    /\ dvh.is_sorted
    /\ Len(dvh.d) = 2
    /\ add_slice(dvh, <<Num(1), Num(-1)>>, <<Num(1), Num(1)>>).self = call.pre

----------------------------------------------------------------------------
(* C3 *)

\* C3: after sort() has returned, the doses are non-decreasing, the sorted
\* flag is true, both sequences have the length they had, and the multiset
\* of (dose, volume) pairs is the one before the call.
C3_SortCorrect ==
    (call.op = "sort" /\ call.ret = "returned") =>
        /\ NonDecreasing(dvh.d)
        /\ dvh.is_sorted
        /\ Len(dvh.d) = Len(call.pre.d)
        /\ Len(dvh.v) = Len(call.pre.v)
        /\ PairBag(dvh) = PairBag(call.pre)

\* sort() has put the three points added as (2,0) (0,1) (1,1/4) in order.
C3_Witness ==
    /\ call.op = "sort"
    /\ call.ret = "returned"
    /\ call.pre.d = <<Num(2), Num(0), Num(1)>>
    /\ call.pre.v = <<Num(0), Num(1), Rat(1, 4)>>
    /\ dvh.d = <<Num(0), Num(1), Num(2)>>
    /\ dvh.v = <<Num(1), Rat(1, 4), Num(0)>>

----------------------------------------------------------------------------
(* C4 *)

\* C4: in every state reached from new by add, add_slice, sort, dx and vx,
\* sorted == true implies that the stored doses are non-decreasing.
C4_SortedFlagImpliesOrder ==
    dvh.is_sorted => NonDecreasing(dvh.d)

\* A sorted three-point histogram with distinct doses, after a query.
C4_Witness ==
    /\ dvh.is_sorted
    /\ Len(dvh.d) = 3
    /\ FLt(dvh.d[1], dvh.d[3])
    /\ call.op \in {"dx", "vx"}

----------------------------------------------------------------------------
(* C5 *)

IsQuery(c) == c.op \in {"dx", "vx"}
IsAppend(c) == c.op \in {"add", "add_slice"}

\* C5: dx or vx returns a value only if sort() has been called after the
\* most recent successful append, and no query sorts the data itself.
\* Stated on the sorted flag, which carries that history: a query that
\* returns a value was made on a histogram whose flag is true; a successful
\* append leaves the flag false; the flag goes from false to true in a call
\* of sort only; a query leaves the histogram as it was.
C5_QueryNeedsSortAfterAppend ==
    /\ (IsQuery(call) /\ call.ret.ok) => call.pre.is_sorted
    /\ (IsAppend(call) /\ call.ret = TRUE) => ~dvh.is_sorted
    /\ (dvh.is_sorted /\ ~call.pre.is_sorted) => call.op = "sort"
    /\ IsQuery(call) => dvh = call.pre

\* A query refused with Unsorted although the three doses, as appended, are
\* in order.
C5_Witness ==
    /\ call.op = "dx"
    /\ call.ret = Err("DvhUnsorted")
    /\ Len(dvh.d) = 3
    /\ NonDecreasing(dvh.d)
    /\ ~dvh.is_sorted

----------------------------------------------------------------------------
(* C6 *)

\* C6 as stated: for every query value, dx and vx fail with NoData on zero
\* points, with InsufficientData on exactly one point, and with Unsorted
\* when the sorted flag is false.
C6_AsStated ==
    \A x \in QueryVals :
        /\ Len(dvh.d) = 0 =>
              dx(dvh, x) = Err("DvhNoData") /\ vx(dvh, x) = Err("DvhNoData")
        /\ Len(dvh.d) = 1 =>
              /\ dx(dvh, x) = Err("DvhInsufficientData")
              /\ vx(dvh, x) = Err("DvhInsufficientData")
        /\ ~dvh.is_sorted =>
              dx(dvh, x) = Err("DvhUnsorted") /\ vx(dvh, x) = Err("DvhUnsorted")

\* C6, amended: for every query value that is not negative, dx and vx fail
\* with NoData on zero points, with InsufficientData on exactly one point
\* (whatever the sorted flag), and with Unsorted on two or more points whose
\* sorted flag is false; that error and no other.
C6_PreconditionGating ==
    \A x \in QueryVals :
        ~FLt(x, Zero) =>
            /\ Len(dvh.d) = 0 =>
                  dx(dvh, x) = Err("DvhNoData") /\ vx(dvh, x) = Err("DvhNoData")
            /\ Len(dvh.d) = 1 =>
                  /\ dx(dvh, x) = Err("DvhInsufficientData")
                  /\ vx(dvh, x) = Err("DvhInsufficientData")
            /\ (Len(dvh.d) >= 2 /\ ~dvh.is_sorted) =>
                  /\ dx(dvh, x) = Err("DvhUnsorted")
                  /\ vx(dvh, x) = Err("DvhUnsorted")

\* A query on a single point that has not been sorted: InsufficientData.
C6_Witness ==
    /\ call.op = "dx"
    /\ call.ret = Err("DvhInsufficientData")
    /\ Len(dvh.d) = 1
    /\ ~dvh.is_sorted

----------------------------------------------------------------------------
(* C7 *)

\* Dose as a function of volume on the segment between samples i and i + 1.
DoseOnSegment(self, i, x) ==
    FAdd(self.d[i + 1],
         FDiv(FMul(FSub(x, self.v[i + 1]), FSub(self.d[i], self.d[i + 1])),
              FSub(self.v[i], self.v[i + 1])))

\* The histogram of test_dvh_dx_multiple_points, sorted.
FourPoints ==
    [dose_type |-> "Gy", volume_type |-> "Percent",
     d |-> <<Num(0), Num(5), Num(10), Num(15)>>,
     v |-> <<Num(1), Rat(9, 10), Rat(8, 10), Rat(7, 10)>>,
     is_sorted |-> TRUE]

\* C7: on a sorted histogram of two or more points with non-increasing
\* volumes, for a query volume x with v[last] < x <= v[first], dx(x) is the
\* linear interpolation of dose over volume on an adjacent pair (i, i+1)
\* that brackets x (v[i+1] <= x <= v[i]); on the four points
\* (0,1) (5,.9) (10,.8) (15,.7), dx(.85) = 7.5 and dx(.79) = 10.5.
C7_DxInterpolatesOnBracket ==
    /\ (Queryable(dvh) /\ NonIncreasing(dvh.v)) =>
          \A x \in QueryVals :
              (FLt(dvh.v[Len(dvh.v)], x) /\ FLe(x, dvh.v[1])) =>
                  \E i \in 1..(Len(dvh.v) - 1) :
                      /\ FLe(dvh.v[i + 1], x)
                      /\ FLe(x, dvh.v[i])
                      /\ ~FEq(dvh.v[i], dvh.v[i + 1])
                      /\ dx(dvh, x) = Ok(DoseOnSegment(dvh, i, x))
    /\ dx(FourPoints, Rat(85, 100)) = Ok(Rat(15, 2))
    /\ dx(FourPoints, Rat(79, 100)) = Ok(Rat(21, 2))

\* dx(1/2) on (0,1) (1,1/4) (2,0): 2/3, interpolated on the segment of the
\* two lowest doses, the second one the scan looks at.
C7_Witness ==
    /\ call.op = "dx"
    /\ call.ret = Ok(Rat(2, 3))
    /\ dvh.d = <<Num(0), Num(1), Num(2)>>
    /\ dvh.v = <<Num(1), Rat(1, 4), Num(0)>>

----------------------------------------------------------------------------
(* C8 *)

\* C8 as stated: on a sorted histogram of two or more points, a query
\* volume <= the last point's volume returns the last point's dose, and a
\* query above every stored volume returns the first point's dose.
C8_AsStated ==
    Queryable(dvh) =>
        \A x \in QueryVals :
            /\ FLe(x, dvh.v[Len(dvh.v)]) =>
                  dx(dvh, x) = Ok(dvh.d[Len(dvh.d)])
            /\ (\A i \in 1..Len(dvh.v) : FGt(x, dvh.v[i])) =>
                  dx(dvh, x) = Ok(dvh.d[1])

\* C8, amended: on a sorted histogram of two or more points, for a query
\* volume that is not negative: a query <= the last point's volume returns
\* the last point's dose; a query above every stored volume returns the
\* first point's dose.  Both units; on Percent a query above 1.0 is clamped,
\* not rejected.
C8_DxClamps ==
    Queryable(dvh) =>
        \A x \in QueryVals :
            ~FLt(x, Zero) =>
                /\ FLe(x, dvh.v[Len(dvh.v)]) =>
                      dx(dvh, x) = Ok(dvh.d[Len(dvh.d)])
                /\ (\A i \in 1..Len(dvh.v) : FGt(x, dvh.v[i])) =>
                      dx(dvh, x) = Ok(dvh.d[1])

\* A Percent histogram on which dx has returned the first dose, as it does
\* for the query 3/2.
C8_Witness ==
    /\ dvh.volume_type = "Percent"
    /\ Queryable(dvh)
    /\ FLt(dvh.d[1], dvh.d[Len(dvh.d)])
    /\ \A i \in 1..Len(dvh.v) : FLt(dvh.v[i], One)
    /\ call.op = "dx"
    /\ call.ret = Ok(dvh.d[1])
    /\ dx(dvh, Rat(3, 2)) = call.ret

----------------------------------------------------------------------------
(* C9 *)

\* Volume as a function of dose on the segment between samples i and i + 1.
VolumeOnSegment(self, i, x) ==
    FAdd(self.v[i],
         FDiv(FMul(FSub(x, self.d[i]), FSub(self.v[i + 1], self.v[i])),
              FSub(self.d[i + 1], self.d[i])))

\* The adjacent pairs (i, i+1) whose doses bracket x.
DoseBrackets(self, x) ==
    {i \in 1..(Len(self.d) - 1) : FLe(self.d[i], x) /\ FLe(x, self.d[i + 1])}

\* C9: on a sorted histogram of two or more points, for a query dose x with
\* d[first] < x <= d[last], vx(x) is the linear interpolation of volume over
\* dose on the first adjacent pair, from the low-dose end, that brackets x;
\* the two doses of that pair differ, so the x1 == x0 guard does not produce
\* the result.
C9_VxInterpolatesOnFirstBracket ==
    Queryable(dvh) =>
        \A x \in QueryVals :
            (FLt(dvh.d[1], x) /\ FLe(x, dvh.d[Len(dvh.d)])) =>
                /\ DoseBrackets(dvh, x) # {}
                /\ LET i == CHOOSE k \in DoseBrackets(dvh, x) :
                                \A j \in DoseBrackets(dvh, x) : k <= j
                   IN  /\ ~FEq(dvh.d[i], dvh.d[i + 1])
                       /\ vx(dvh, x) = Ok(VolumeOnSegment(dvh, i, x))

\* vx(3/2) on (0,1) (1,1/4) (2,0): 1/8, interpolated on the second segment.
C9_Witness ==
    /\ call.op = "vx"
    /\ call.ret = Ok(Rat(1, 8))
    /\ dvh.d = <<Num(0), Num(1), Num(2)>>
    /\ dvh.v = <<Num(1), Rat(1, 4), Num(0)>>

----------------------------------------------------------------------------
(* C10 *)

\* C10 as stated: on a sorted histogram of two or more points, a query dose
\* <= the first point's dose returns the first point's volume, and a query
\* above the last point's dose returns the last point's volume.
C10_AsStated ==
    Queryable(dvh) =>
        \A x \in QueryVals :
            /\ FLe(x, dvh.d[1]) => vx(dvh, x) = Ok(dvh.v[1])
            /\ FGt(x, dvh.d[Len(dvh.d)]) =>
                  vx(dvh, x) = Ok(dvh.v[Len(dvh.v)])

\* C10, amended: on a sorted histogram of two or more points, for a query
\* dose that is not negative: a query <= the first point's dose returns the
\* first point's volume; a query above the last point's dose returns the
\* last point's volume.
C10_VxClamps ==
    Queryable(dvh) =>
        \A x \in QueryVals :
            ~FLt(x, Zero) =>
                /\ FLe(x, dvh.d[1]) => vx(dvh, x) = Ok(dvh.v[1])
                /\ FGt(x, dvh.d[Len(dvh.d)]) =>
                      vx(dvh, x) = Ok(dvh.v[Len(dvh.v)])

\* vx has returned the last volume of (0,1) (1,1/4) (2,0), as it does for
\* the query dose 3.
C10_Witness ==
    /\ call.op = "vx"
    /\ dvh.d = <<Num(0), Num(1), Num(2)>>
    /\ dvh.v = <<Num(1), Rat(1, 4), Num(0)>>
    /\ call.ret = Ok(Num(0))
    /\ vx(dvh, Num(3)) = call.ret

----------------------------------------------------------------------------
(* C11 *)

\* C11: on every histogram reached from new through add, add_slice and sort
\* (volumes not monotone in dose and duplicate doses included), for every
\* query value >= 0, dx does not return DvhDxLogic and vx does not return
\* DvhVxLogic.
C11_LogicErrorsUnreachable ==
    \A x \in QueryVals :
        FGe(x, Zero) =>
            /\ dx(dvh, x) # Err("DvhDxLogic")
            /\ vx(dvh, x) # Err("DvhVxLogic")

----------------------------------------------------------------------------
(* C12 *)

\* A sorted histogram of two or more points whose doses strictly increase
\* and whose volumes strictly decrease.
StrictlyMonotone(self) ==
    /\ Queryable(self)
    /\ \A i \in 1..(Len(self.d) - 1) :
          FLt(self.d[i], self.d[i + 1]) /\ FGt(self.v[i], self.v[i + 1])

\* The histogram of test_dvh_dx_interpolation and test_dvh_vx_interpolation,
\* sorted.
TwoPoints ==
    [dose_type |-> "Gy", volume_type |-> "Percent",
     d |-> <<Num(0), Num(10)>>,
     v |-> <<Num(1), Rat(8, 10)>>,
     is_sorted |-> TRUE]

\* C12: on a sorted histogram of two or more points with strictly increasing
\* doses and strictly decreasing volumes, in exact arithmetic,
\* dx(vx(d)) = d for every dose d with d[first] <= d <= d[last] and
\* vx(dx(v)) = v for every volume v with v[last] <= v <= v[first]; on the
\* two points (0,1) (10,.8), vx(5) = .9 and dx(.9) = 5.
C12_DxVxMutuallyInverse ==
    /\ StrictlyMonotone(dvh) =>
          \A x \in QueryVals :
              /\ (FLe(dvh.d[1], x) /\ FLe(x, dvh.d[Len(dvh.d)])) =>
                    /\ vx(dvh, x).ok
                    /\ dx(dvh, vx(dvh, x).val) = Ok(x)
              /\ (FLe(dvh.v[Len(dvh.v)], x) /\ FLe(x, dvh.v[1])) =>
                    /\ dx(dvh, x).ok
                    /\ vx(dvh, dx(dvh, x).val) = Ok(x)
    /\ vx(TwoPoints, Num(5)) = Ok(Rat(9, 10))
    /\ dx(TwoPoints, Rat(9, 10)) = Ok(Num(5))

\* vx(3/2) = 1/8 has been asked on (0,1) (1,1/4) (2,0), and dx(1/8) leads
\* back to 3/2.
C12_Witness ==
    /\ StrictlyMonotone(dvh)
    /\ Len(dvh.d) = 3
    /\ call.op = "vx"
    /\ call.ret = Ok(Rat(1, 8))
    /\ dx(dvh, call.ret.val) = Ok(Rat(3, 2))

----------------------------------------------------------------------------
(* C13 *)

\* What a stable sort by dose makes of a histogram whose sorted flag is
\* false: the point in place k is the one that has k - 1 points before it,
\* those of a smaller dose and those of the same dose appended earlier.
StableSort(self) ==
    IF self.is_sorted THEN self
    ELSE LET n == Len(self.d)
             Before(i) == {j \in 1..n :
                             \/ FLt(self.d[j], self.d[i])
                             \/ FEq(self.d[j], self.d[i]) /\ j < i}
             p == [k \in 1..n |->
                     CHOOSE i \in 1..n : Cardinality(Before(i)) = k - 1]
         IN  [self EXCEPT !.d = [k \in 1..n |-> self.d[p[k]]],
                          !.v = [k \in 1..n |-> self.v[p[k]]],
                          !.is_sorted = TRUE]

\* No two stored points have the same dose.
DistinctDoses(self) ==
    \A i, j \in 1..Len(self.d) : i # j => ~FEq(self.d[i], self.d[j])

\* C13: sort() is stable: after it has returned, points of equal dose are in
\* the order they were appended in, so the state after sort() is the stable
\* sort of the state before and no other.  It holds of histograms of up to
\* 20 points, which sort_unstable_by sorts by insertion, and fails for
\* longer ones.
C13_AsStated ==
    /\ (call.op = "sort" /\ call.ret = "returned") => dvh = StableSort(call.pre)
    /\ \A r \in sort(dvh) : r.ret = "returned" => r.self = StableSort(dvh)

----------------------------------------------------------------------------
(* C14 *)

\* C14: sort() is idempotent: a second sort() right after one that returned
\* leaves the doses, the volumes and the sorted flag as the first left them,
\* and sort() on a histogram whose sorted flag is true changes nothing.
C14_SortIdempotent ==
    /\ \A r \in sort(dvh) :
          r.ret = "returned" => sort(r.self) = {Outcome(r.self, "returned")}
    /\ dvh.is_sorted => sort(dvh) = {Outcome(dvh, "returned")}
    /\ (call.op = "sort" /\ call.pre.is_sorted) =>
          dvh = call.pre /\ call.ret = "returned"

\* sort() has been called on a three-point histogram whose flag was set,
\* two of whose points share a dose and differ in volume, and has left it
\* as it was.
C14_Witness ==
    /\ call.op = "sort"
    /\ call.pre.is_sorted
    /\ Len(dvh.d) = 3
    /\ \E i \in 1..2 : FEq(dvh.d[i], dvh.d[i + 1]) /\ dvh.v[i] # dvh.v[i + 1]
    /\ dvh = call.pre

----------------------------------------------------------------------------
(* C15 *)

\* C15 as stated: add_slice with two empty slices returns true and changes
\* neither the doses, nor the volumes, nor the sorted flag, so a histogram
\* that was sorted and queryable before the call is queryable after it.
C15_AsStated ==
    /\ add_slice(dvh, <<>>, <<>>) = Outcome(dvh, TRUE)
    /\ Queryable(dvh) => Queryable(add_slice(dvh, <<>>, <<>>).self)
    /\ (call.op = "add_slice" /\ call.ret = TRUE /\ dvh.d = call.pre.d) =>
          dvh = call.pre

\* C15, amended: add_slice with two empty slices returns true and leaves the
\* doses and the volumes as they were, and it sets the sorted flag to false:
\* a histogram of two or more points answers every query that is not
\* negative with Unsorted after the call.
C15_EmptyAddSliceClearsFlag ==
    /\ add_slice(dvh, <<>>, <<>>) = Outcome([dvh EXCEPT !.is_sorted = FALSE], TRUE)
    /\ Len(dvh.d) >= 2 =>
          \A x \in QueryVals :
              ~FLt(x, Zero) =>
                  /\ dx(add_slice(dvh, <<>>, <<>>).self, x) = Err("DvhUnsorted")
                  /\ vx(add_slice(dvh, <<>>, <<>>).self, x) = Err("DvhUnsorted")
    /\ (call.op = "add_slice" /\ call.ret = TRUE /\ dvh.d = call.pre.d) =>
          dvh = [call.pre EXCEPT !.is_sorted = FALSE]

\* add_slice with empty slices has returned true on a sorted three-point
\* histogram that answered dx(1/2), and the histogram no longer answers it.
C15_Witness ==
    /\ call.op = "add_slice"
    /\ call.ret = TRUE
    /\ Len(call.pre.d) = 3
    /\ dvh.d = call.pre.d
    /\ dvh.v = call.pre.v
    /\ call.pre.is_sorted
    /\ dx(call.pre, Rat(1, 2)).ok
    /\ dx(dvh, Rat(1, 2)) = Err("DvhUnsorted")

----------------------------------------------------------------------------
(* C16 *)

\* The pairs C16 calls accepted: dose >= 0, volume >= 0, and volume <= 1.0
\* when the unit is Percent.
Accepted(self, d, v) ==
    /\ FGe(d, Zero)
    /\ FGe(v, Zero)
    /\ self.volume_type = "Percent" => FLe(v, One)

\* C16: for every histogram and every accepted pair, add returns true, the
\* dose and the volume become the new last elements of their sequences
\* (each longer by exactly one, the earlier elements in place), and the
\* sorted flag is false afterwards, also when the new dose is >= every
\* stored dose; nothing else changes.
C16_AddAppendsAndInvalidates ==
    /\ \A d \in DoseVals, v \in VolVals :
          Accepted(dvh, d, v) =>
              LET r == add(dvh, d, v)
                  n == Len(dvh.d)
              IN  /\ r.ret = TRUE
                  /\ Len(r.self.d) = n + 1 /\ Len(r.self.v) = n + 1
                  /\ r.self.d[n + 1] = d /\ r.self.v[n + 1] = v
                  /\ \A i \in 1..n :
                        r.self.d[i] = dvh.d[i] /\ r.self.v[i] = dvh.v[i]
                  /\ r.self.is_sorted = FALSE
                  /\ r.self.dose_type = dvh.dose_type
                  /\ r.self.volume_type = dvh.volume_type
    /\ (call.op = "add" /\ call.ret = TRUE) =>
          /\ Len(dvh.d) = Len(call.pre.d) + 1
          /\ SubSeq(dvh.d, 1, Len(call.pre.d)) = call.pre.d
          /\ SubSeq(dvh.v, 1, Len(call.pre.v)) = call.pre.v
          /\ ~dvh.is_sorted

\* add has returned true on a sorted two-point histogram for a dose that is
\* >= both stored doses: the doses are still in order and the flag is false.
C16_Witness ==
    /\ call.op = "add"
    /\ call.ret = TRUE
    /\ call.pre.is_sorted
    /\ Len(call.pre.d) = 2
    /\ FGe(dvh.d[3], dvh.d[2])
    /\ NonDecreasing(dvh.d)
    /\ ~dvh.is_sorted

----------------------------------------------------------------------------
(* C17 *)

\* C17: in every state reached from new by add, add_slice and sort calls,
\* accepted or rejected, the dose and volume sequences have the same length,
\* every stored dose and every stored volume is >= 0, and on a Percent
\* histogram every stored volume is <= 1.0.
C17_StoredDataWellFormed ==
    /\ Len(dvh.d) = Len(dvh.v)
    /\ \A i \in 1..Len(dvh.d) : FGe(dvh.d[i], Zero)
    /\ \A i \in 1..Len(dvh.v) : FGe(dvh.v[i], Zero)
    /\ dvh.volume_type = "Percent" =>
          \A i \in 1..Len(dvh.v) : FLe(dvh.v[i], One)

----------------------------------------------------------------------------
(* C18 *)

\* C18: the sorted flag is not part of the serialized histogram;
\* deserializing a serialized histogram gives a histogram with the same
\* units, doses and volumes and a sorted flag that is false whatever it
\* was; on the result, with two or more points, no query returns a value,
\* and every query that is not negative fails with Unsorted; the flag stays
\* false until sort() has returned, after which it is true.
C18_SortedFlagNotPersisted ==
    LET value == Dvh_serialize(dvh)
        deserialized == Dvh_deserialize(value)
    IN  /\ DOMAIN value = {"dose_type", "volume_type", "d", "v"}
        /\ deserialized = Ok([dvh EXCEPT !.is_sorted = FALSE])
        /\ Len(dvh.d) >= 2 =>
              \A x \in QueryVals :
                  /\ ~dx(deserialized.val, x).ok
                  /\ ~vx(deserialized.val, x).ok
                  /\ ~FLt(x, Zero) =>
                        /\ dx(deserialized.val, x) = Err("DvhUnsorted")
                        /\ vx(deserialized.val, x) = Err("DvhUnsorted")
        /\ (call.op = "sort" /\ call.ret = "returned") => dvh.is_sorted
        /\ call.op = "dvh_round_trip" =>
              /\ call.ret = "returned"
              /\ dvh = [call.pre EXCEPT !.is_sorted = FALSE]
        /\ (call.op # "sort" /\ ~call.pre.is_sorted) => ~dvh.is_sorted

----------------------------------------------------------------------------
(* C19 *)

\* C19: serializing a patient record and deserializing the result gives a
\* record equal to the original, for every patient record, those holding
\* sorted histograms included.
C19_AsStated ==
    /\ \A p \in Patients(dvh) :
          LET r == Patient_deserialize(Patient_serialize(p)) IN
          r.ok /\ Patient_eq(p, r.val)
    /\ call.op = "patient_round_trip" => call.ret = Ok(TRUE)

----------------------------------------------------------------------------
(* C20 *)

\* C20: the units of a histogram are those it was constructed with: no
\* operation a user of the histogram has changes dose_type or volume_type,
\* so a histogram that holds a volume above 1.0 never has the Percent unit.
\* Stated with the assignments to the pub fields among the operations.
C20_UnitsFixedAtConstruction ==
    /\ dvh.dose_type = call.pre.dose_type
    /\ dvh.volume_type = call.pre.volume_type
    /\ dvh.volume_type = "Percent" =>
          \A i \in 1..Len(dvh.v) : ~FGt(dvh.v[i], One)

----------------------------------------------------------------------------
(* C21 *)

\* The check of the histogram h succeeds.
CheckSucceeds(h) == \A o \in Dvh_dvh_check(h) : o.ret.ok

\* The position, in the iteration order, of the first histogram of the plan
\* whose check fails.
FirstFailing(p, order) ==
    CHOOSE j \in 1..Len(order) :
        /\ ~CheckSucceeds(p.dvhs[order[j]])
        /\ \A i \in 1..(j - 1) : CheckSucceeds(p.dvhs[order[i]])

\* C21: Plan::dvh_check returns Ok exactly when the check of every
\* histogram the plan holds succeeds, so on a plan without histograms;
\* otherwise it returns the error of the first histogram, in iteration
\* order, whose check fails, and the histograms after that one are not
\* visited: they are as they were.
C21_PlanCheckFirstFailure ==
    /\ \A p \in Plans(dvh) : \A order \in Orders(p.dvhs) :
          \A r \in Plan_dvh_check(p, order) :
              /\ r.ret.ok <=> \A k \in DOMAIN p.dvhs : CheckSucceeds(p.dvhs[k])
              /\ DOMAIN p.dvhs = {} => r.ret = Ok(Unit)
              /\ ~r.ret.ok =>
                    LET j == FirstFailing(p, order) IN
                    /\ r.ret \in {o.ret : o \in Dvh_dvh_check(p.dvhs[order[j]])}
                    /\ r.visited = SubSeq(order, 1, j)
                    /\ \A i \in (j + 1)..Len(order) :
                          r.self.dvhs[order[i]] = p.dvhs[order[i]]
    /\ (call.op = "plan_dvh_check" /\ ~call.ret.ok) =>
          \A k \in DOMAIN call.plan.dvhs :
              (\A i \in 1..Len(call.visited) : call.visited[i] # k) =>
                  call.post.dvhs[k] = call.plan.dvhs[k]

\* dvh_check has failed on a plan of three histograms at the second one
\* visited, with the error of that one, after sorting the first; the third,
\* which is not sorted and would fail with another error, is as it was.
C21_Witness ==
    /\ call.op = "plan_dvh_check"
    /\ Len(call.order) = 3
    /\ Len(call.visited) = 2
    /\ call.ret = Err("NegativeDose")
    /\ ~call.plan.dvhs[call.order[1]].is_sorted
    /\ call.post.dvhs[call.order[1]].is_sorted
    /\ call.plan.dvhs[call.order[3]] = PercentOutOfRangeDvh
    /\ call.post.dvhs[call.order[3]] = PercentOutOfRangeDvh

----------------------------------------------------------------------------
(* C22 *)

\* The positions of the separators in the text t.
SeparatorsOf(t) == {i \in 1..Len(t) : t[i] \in {"^", "\\"}}

\* The k-th substring of t cut at its separators, k at most one more than
\* the number of separators: the text after the (k-1)-th separator (from the
\* start, for k = 1) and before the k-th (to the end, for the last).
Substring(t, k) ==
    LET cuts == SeparatorsOf(t) \cup {0, Len(t) + 1}
        cut(m) == CHOOSE c \in cuts : Cardinality({b \in cuts : b < c}) = m
    IN SubSeq(t, cut(k - 1) + 1, cut(k) - 1)

\* The k-th of the five fields of a name.
Field(name, k) ==
    IF k = 1 THEN name.last
    ELSE IF k = 2 THEN name.first
    ELSE IF k = 3 THEN name.middle
    ELSE IF k = 4 THEN name.prefix
    ELSE name.suffix

\* The fields of name are the first five substrings of t, the empty string
\* where t has fewer.
FieldsAreSubstringsOf(name, t) ==
    \A k \in 1..5 :
        Field(name, k) = IF k <= Cardinality(SeparatorsOf(t)) + 1
                         THEN Substring(t, k)
                         ELSE <<>>

\* The text s without the whitespace at its two ends.
WithoutOuterWhitespace(s) ==
    LET inked == {i \in 1..Len(s) : s[i] # " "} IN
    IF inked = {} THEN <<>>
    ELSE SubSeq(s, CHOOSE i \in inked : \A j \in inked : i <= j,
                   CHOOSE i \in inked : \A j \in inked : j <= i)

\* C22 as stated: the fields are the substrings of the input itself.
C22_AsStated ==
    call.op = "from_dicom" => FieldsAreSubstringsOf(call.ret, call.arg)

\* C22: from_dicom splits its input, taken without the whitespace at its
\* two ends, at every '^' and every backslash and assigns the substrings in
\* order to last, first, middle, prefix, suffix: the k-th field is the k-th
\* substring (empty between adjacent separators) when there are at least k
\* substrings and the empty string otherwise; substrings beyond the fifth
\* are ignored.
C22_FieldsAreSubstringsOfTrimmedInput ==
    call.op = "from_dicom" =>
        FieldsAreSubstringsOf(call.ret, WithoutOuterWhitespace(call.arg))

\* from_dicom has been called on a text of six substrings cut by carets and
\* backslashes: the five empty ones between the separators went to the five
\* fields and the sixth, which is not empty, to no field.
C22_Witness ==
    /\ call.op = "from_dicom"
    /\ call.arg = <<"^", "\\", "^", "^", "\\", "D">>
    /\ Cardinality(SeparatorsOf(call.arg)) = 5
    /\ call.ret = [last |-> <<>>, first |-> <<>>, middle |-> <<>>,
                   prefix |-> <<>>, suffix |-> <<>>]

----------------------------------------------------------------------------
(* C23 *)

\* The text t begins, or ends, with a whitespace character.
BeginsWithWhitespace(t) == Len(t) > 0 /\ t[1] = " "

EndsWithWhitespace(t) == Len(t) > 0 /\ t[Len(t)] = " "

\* C23 as stated: no field of the name begins or ends with whitespace.
C23_AsStated ==
    call.op = "from_dicom" =>
        \A k \in 1..5 : /\ ~BeginsWithWhitespace(Field(call.ret, k))
                        /\ ~EndsWithWhitespace(Field(call.ret, k))

\* C23: from_dicom removes the whitespace at the two ends of its input
\* only: last does not begin with whitespace and, when the input has at
\* most five substrings, the field of the final one does not end with
\* whitespace; every other character of the input, whitespace next to a
\* separator included, is in its field, so that the fields and the
\* separators between them are as long as the input without the whitespace
\* at its ends.
C23_OnlyOuterWhitespaceTrimmed ==
    call.op = "from_dicom" =>
        LET n == Cardinality(SeparatorsOf(call.arg)) + 1
            kept == WithoutOuterWhitespace(call.arg)
        IN /\ ~BeginsWithWhitespace(call.ret.last)
           /\ n <= 5 =>
                 /\ ~EndsWithWhitespace(Field(call.ret, n))
                 /\ Len(call.ret.last) + Len(call.ret.first)
                      + Len(call.ret.middle) + Len(call.ret.prefix)
                      + Len(call.ret.suffix) + (n - 1) = Len(kept)

\* from_dicom has been called on " D ^ D ": the whitespace at the ends of
\* the input is gone, the whitespace on both sides of the separator is in
\* last and in first.
C23_Witness ==
    /\ call.op = "from_dicom"
    /\ call.arg = <<" ", "D", " ", "^", " ", "D">>
    /\ call.ret.last = <<"D", " ">>
    /\ call.ret.first = <<" ", "D">>

----------------------------------------------------------------------------
(* C24 *)

\* Batches with a NaN among the doses or among the volumes.
NaNBatches ==
    {<< <<Num(0), NaN>>, <<Num(1), Num(1)>> >>,
     << <<Num(0), Num(1)>>, <<NaN, Num(1)>> >>}

\* The histogram after add(d[i], v[i]) has been called for i, i + 1, ... in
\* input order.
RECURSIVE AddEach(_, _, _, _)
AddEach(self, d, v, i) ==
    IF i > Len(d) THEN self
    ELSE AddEach(add(self, d[i], v[i]).self, d, v, i + 1)

\* C24: for slices that are not both empty, add_slice(ds, vs) returns true
\* exactly when the slices have the same length and add accepts every pair
\* (ds[i], vs[i]); the state it then leaves (the pairs in input order after
\* the points already held, sorted == false) is the state reached from the
\* same histogram by add(ds[i], vs[i]) for i in input order.
C24_AddSliceIsSequenceOfAdds ==
    \A b \in Batches \cup NaNBatches :
        (Len(b[1]) > 0 \/ Len(b[2]) > 0) =>
            LET r == add_slice(dvh, b[1], b[2]) IN
            /\ r.ret = TRUE <=>
                  /\ Len(b[1]) = Len(b[2])
                  /\ \A i \in 1..Len(b[1]) : add(dvh, b[1][i], b[2][i]).ret = TRUE
            /\ r.ret = TRUE =>
                  /\ r.self = AddEach(dvh, b[1], b[2], 1)
                  /\ r.self.d = dvh.d \o b[1]
                  /\ r.self.v = dvh.v \o b[2]
                  /\ ~r.self.is_sorted

\* add_slice has appended two points to a sorted histogram of one point and
\* left what the two adds leave.
C24_Witness ==
    /\ call.op = "add_slice"
    /\ call.ret = TRUE
    /\ Len(call.pre.d) = 1
    /\ call.pre.is_sorted
    /\ Len(dvh.d) = 3
    /\ dvh = AddEach(call.pre, SubSeq(dvh.d, 2, 3), SubSeq(dvh.v, 2, 3), 1)

----------------------------------------------------------------------------
(* C25 *)

\* C25: dx and vx test their failure conditions in a fixed order and report
\* the first that holds: a negative query (NegativeVolume from dx,
\* NegativeDose from vx), then no point (NoData), then one point
\* (InsufficientData), then a sorted flag that is false (Unsorted); when
\* none holds they report none of these.
C25_FailureConditionsInOrder ==
    \A x \in QueryVals :
        LET rd == dx(dvh, x)
            rv == vx(dvh, x)
            gating == {"NegativeVolume", "NegativeDose", "DvhNoData",
                       "DvhInsufficientData", "DvhUnsorted"}
        IN  IF FLt(x, Zero)
            THEN rd = Err("NegativeVolume") /\ rv = Err("NegativeDose")
            ELSE IF Len(dvh.d) = 0
            THEN rd = Err("DvhNoData") /\ rv = Err("DvhNoData")
            ELSE IF Len(dvh.d) = 1
            THEN rd = Err("DvhInsufficientData") /\ rv = Err("DvhInsufficientData")
            ELSE IF ~dvh.is_sorted
            THEN rd = Err("DvhUnsorted") /\ rv = Err("DvhUnsorted")
            ELSE /\ rd.ok \/ rd.err \notin gating
                 /\ rv.ok \/ rv.err \notin gating

\* vx has been called with a negative dose on a single point that has not
\* been sorted, where three of the conditions hold: NegativeDose.
C25_Witness ==
    /\ call.op = "vx"
    /\ call.ret = Err("NegativeDose")
    /\ Len(dvh.d) = 1
    /\ ~dvh.is_sorted
    /\ vx(dvh, Num(0)) = Err("DvhInsufficientData")

----------------------------------------------------------------------------
(* C26 *)

\* A sorted histogram of two or more points whose doses strictly increase
\* and whose volumes do not increase.
CumulativeCurve(self) ==
    /\ Queryable(self)
    /\ \A i \in 1..(Len(self.d) - 1) : FLt(self.d[i], self.d[i + 1])
    /\ NonIncreasing(self.v)

\* Two neighbouring points of the histogram have the same volume.
HasPlateau(self) ==
    \E i \in 1..(Len(self.d) - 1) : FEq(self.v[i], self.v[i + 1])

\* The dose halfway between D and the first sample dose above D.
HalfwayToNextSample(self, D) ==
    LET k == CHOOSE i \in 1..Len(self.d) :
                 /\ FGt(self.d[i], D)
                 /\ \A j \in 1..(i - 1) : ~FGt(self.d[j], D)
    IN  FDiv(FAdd(D, self.d[k]), Num(2))

\* D is the greatest dose in [d[1], d[last]] with vx(D) >= x.  vx is linear
\* between neighbouring samples and does not increase on a cumulative
\* curve, so that no greater dose qualifies exactly when D is the last
\* sample dose, or vx(D) = x and vx is below x halfway to the next sample.
GreatestDoseWithVolumeAtLeast(self, x, D) ==
    LET n == Len(self.d) IN
    /\ FLe(self.d[1], D) /\ FLe(D, self.d[n])
    /\ vx(self, D).ok /\ FGe(vx(self, D).val, x)
    /\ \/ FEq(D, self.d[n])
       \/ /\ FEq(vx(self, D).val, x)
          /\ FLt(vx(self, HalfwayToNextSample(self, D)).val, x)
    /\ \A q \in QueryVals \cup {self.d[i] : i \in 1..n} :
          (FGt(q, D) /\ FLe(q, self.d[n])) => FLt(vx(self, q).val, x)

\* C26: on a sorted histogram of two or more points with strictly
\* increasing doses and non-increasing volumes, for every query volume x
\* with v[last] <= x <= v[first], dx(x) is the greatest dose D in
\* [d[first], d[last]] with vx(D) >= x; at a plateau value that is the
\* highest sample dose having that volume.
C26_DxIsGreatestDoseReachingVolume ==
    CumulativeCurve(dvh) =>
        \A x \in QueryVals :
            (FLe(dvh.v[Len(dvh.v)], x) /\ FLe(x, dvh.v[1])) =>
                LET r == dx(dvh, x) IN
                /\ r.ok
                /\ GreatestDoseWithVolumeAtLeast(dvh, x, r.val)
                /\ \A i \in 1..Len(dvh.d) :
                      FEq(dvh.v[i], x) => FGe(r.val, dvh.d[i])

\* dx has been asked for the plateau value of the curve (0, 1), (1, 1),
\* (2, 0) and has returned the dose 1 at the upper end of the plateau; for
\* the dose 1/2 inside the plateau, dx(vx(1/2)) = 1 > 1/2.
C26_Witness ==
    /\ CumulativeCurve(dvh)
    /\ HasPlateau(dvh)
    /\ dvh.d = <<Num(0), Num(1), Num(2)>>
    /\ dvh.v = <<Num(1), Num(1), Num(0)>>
    /\ call.op = "dx"
    /\ call.ret = Ok(Num(1))
    /\ vx(dvh, Rat(1, 2)) = Ok(Num(1))
    /\ dx(dvh, vx(dvh, Rat(1, 2)).val) = Ok(Num(1))

----------------------------------------------------------------------------
(* C27 *)

\* C27: with add and sort taken as the sequences of their field writes in
\* program order and one writer, in every state, the ones between two
\* writes included, sorted == true implies that the doses are
\* non-decreasing and that doses and volumes have the same length and the
\* pairing they were added with: whoever sees the flag set sees no partly
\* permuted and no misaligned sequences.
C27_FlagSetOnlyOnWholeState ==
    dvh.is_sorted =>
        /\ NonDecreasing(dvh.d)
        /\ Len(dvh.d) = Len(dvh.v)
        /\ call.op = "new" \/ PairBag(dvh) = PairBag(call.pre)

\* sort is between its two writes: the doses are in their new order, the
\* volumes still in the old one, and the flag is not set.
C27_Witness ==
    /\ call.op = "sort"
    /\ call.pc = "write_v"
    /\ dvh.d = call.d_sorted
    /\ dvh.d # call.pre.d
    /\ dvh.v = call.pre.v
    /\ dvh.v # call.v_sorted
    /\ ~dvh.is_sorted

----------------------------------------------------------------------------
(* C28 *)

\* What a histogram with a volume unit has in common with one of model.rs.
Unitless(self) ==
    [dose_type |-> self.dose_type, d |-> self.d, v |-> self.v,
     is_sorted |-> self.is_sorted]

\* The outcome of a call on a histogram with a volume unit, in terms of
\* model.rs.
UnitlessOutcome(r) == Outcome(Unitless(r.self), r.ret)

\* C28: the histogram of model.rs and the histogram constructed with
\* VolumeType::Cc are the same machine: new gives the same state, and from
\* the same state every add, add_slice, sort, dx and vx returns the same
\* result and leaves the same doses, volumes and sorted flag.  The Percent
\* histogram differs in that add and add_slice reject a volume above 1.0
\* that model.rs accepts, and in nothing else.
C28_ModelIsCcConfiguration ==
    LET m == Unitless(dvh) IN
    /\ \A t \in DoseType : model_new(t) = Unitless(new(t, "Cc"))
    /\ model_sort(m) = {UnitlessOutcome(r) : r \in sort(dvh)}
    /\ \A x \in QueryVals : model_dx(m, x) = dx(dvh, x) /\ model_vx(m, x) = vx(dvh, x)
    /\ \A p \in Points :
          IF dvh.volume_type = "Percent" /\ FGt(p[2], One) /\ model_add(m, p[1], p[2]).ret
          THEN add(dvh, p[1], p[2]) = Outcome(dvh, FALSE)
          ELSE UnitlessOutcome(add(dvh, p[1], p[2])) = model_add(m, p[1], p[2])
    /\ \A b \in Batches :
          IF /\ dvh.volume_type = "Percent"
             /\ \E i \in 1..Len(b[2]) : FGt(b[2][i], One)
             /\ model_add_slice(m, b[1], b[2]).ret
          THEN add_slice(dvh, b[1], b[2]) = Outcome(dvh, FALSE)
          ELSE UnitlessOutcome(add_slice(dvh, b[1], b[2])) = model_add_slice(m, b[1], b[2])

\* add has appended the volume 2.0 to a Cc histogram, as add of model.rs
\* does from the same state, and the Percent histogram with the same points
\* rejects it.
C28_Witness ==
    /\ call.op = "add"
    /\ call.ret = TRUE
    /\ dvh.volume_type = "Cc"
    /\ Len(dvh.d) = 2
    /\ dvh.v[2] = Num(2)
    /\ model_add(Unitless(call.pre), dvh.d[2], dvh.v[2]) = Outcome(Unitless(dvh), TRUE)
    /\ add([call.pre EXCEPT !.volume_type = "Percent"], dvh.d[2], dvh.v[2]).ret = FALSE

----------------------------------------------------------------------------
(* C29 *)

\* The arrangements of the indices 1..n.
Arrangements(n) ==
    {p \in [1..n -> 1..n] : \A i, j \in 1..n : i # j => p[i] # p[j]}

\* The histogram that holds the points of self in the order p: what adding
\* them in that order builds.
AddedInOrder(self, p) ==
    [self EXCEPT !.d = [k \in 1..Len(self.d) |-> self.d[p[k]]],
                 !.v = [k \in 1..Len(self.d) |-> self.v[p[k]]],
                 !.is_sorted = FALSE]

\* C29: two histograms of the same units that hold the same points, of
\* pairwise distinct doses, added in two different orders, behave alike
\* under sort(): it returns on both or on neither and, when it returns,
\* leaves the same dose and volume sequences, on which dx and vx give the
\* same result for every query value.
C29_InsertionOrderIrrelevant ==
    (DistinctDoses(dvh) /\ ~dvh.is_sorted) =>
        \A p \in Arrangements(Len(dvh.d)) :
            \A r1 \in sort(dvh) : \A r2 \in sort(AddedInOrder(dvh, p)) :
                /\ r1.ret = r2.ret
                /\ r1.ret = "returned" =>
                      /\ r1.self.d = r2.self.d
                      /\ r1.self.v = r2.self.v
                      /\ \A x \in QueryVals :
                            /\ dx(r1.self, x) = dx(r2.self, x)
                            /\ vx(r1.self, x) = vx(r2.self, x)

\* sort has put (2, 0), (0, 1), (1, 1/4) in dose order, and the same points
\* added as (1, 1/4), (2, 0), (0, 1) sort to the same histogram.
C29_Witness ==
    /\ call.op = "sort"
    /\ call.ret = "returned"
    /\ call.pre.d = <<Num(2), Num(0), Num(1)>>
    /\ call.pre.v = <<Num(0), Num(1), Rat(1, 4)>>
    /\ dvh.d = <<Num(0), Num(1), Num(2)>>
    /\ AddedInOrder(call.pre, <<3, 1, 2>>).d = <<Num(1), Num(2), Num(0)>>
    /\ sort(AddedInOrder(call.pre, <<3, 1, 2>>)) = {Outcome(dvh, "returned")}

====
